---------------------------- MODULE Spec2Model ----------------------------
(***************************************************************************)
(* A state-machine model of HuMIDI (src/src/humidi.ts): the MIDI message   *)
(* decoder, the channel-scoped subscription registry, the global and       *)
(* per-device note trackers and the device records.                        *)
(*                                                                         *)
(* Every callback of the library runs to completion (single-threaded       *)
(* event loop), so each handler is one action.  The only suspension point  *)
(* is the await inside requestAccess, which is split into the call and the *)
(* host's answer.                                                          *)
(*                                                                         *)
(* Maps and Sets that the code iterates (forEach) are sequences in         *)
(* insertion order, as JavaScript iterates them; those it only looks up    *)
(* are functions and sets.                                                 *)
(***************************************************************************)
EXTENDS Integers, Sequences, FiniteSets

VARIABLES
    eventHandlersByChannel, \* [null, map]: channel -> event -> handlers in insertion order
    accessStatus,           \* "unrequested" | "accepted" | "denied"
    midiAccess,             \* FALSE: null, TRUE: the host's MIDIAccess object
    enabled,                \* the global gate
    activeNotes,            \* channel -> set of notes
    activeNotesByDevice,    \* device id -> sequence of [channel, notes]
    inputs,                 \* sequence of MIDIInput records [id, state, enabled]
    pending,                \* requestAccess calls suspended at the await
    boundPorts,             \* raw port ids whose onmidimessage is bound to onMessage
    stateChangeBound,       \* whether a MIDIAccess has onstatechange bound
    emitted,                \* the emit() calls of the last callback, in order
    delivered,              \* the handler invocations of the last callback, in order
    thrown,                 \* whether the last call raised an error
    seen,                   \* the trackers as the handlers of each emit() call of the
                            \* last callback found them, in the order of emitted
    lastOnByDevice,         \* history: <<device, channel, note>> whose latest accepted
                            \* note message since the device's last disconnect was a note-on
    lastOnGlobal,           \* history: <<channel, note>> whose latest note event was a NoteOn
    lastCall,               \* history: the last call or callback, with its arguments
    hostRequests,           \* history: navigator.requestMIDIAccess() calls since the
                            \* last reset (since the start when there was none)
    again,                  \* history: whether the call before it was the same call
                            \* (raw messages are not compared)
    unsubscribed            \* history: the number of handlers the registry held on
                            \* the channel when the last call, an
                            \* unsubscribeToChannel, was made (0 after other calls)

vars == << eventHandlersByChannel, accessStatus, midiAccess, enabled,
           activeNotes, activeNotesByDevice, inputs, pending, boundPorts,
           stateChangeBound, emitted, delivered, thrown, seen,
           lastOnByDevice, lastOnGlobal, lastCall, hostRequests, again,
           unsubscribed >>

(***************************************************************************)
(* Constants of the program.                                               *)
(***************************************************************************)
WILDCARD == -1

NOTE_OFF_BASE == 128
NOTE_ON_BASE == 144
CONTROL_CHANGE_BASE == 176
PITCH_BEND_BASE == 224
SUSTAIN_CONTROLLER == 64
SUSTAIN_THRESHOLD == 64
PITCH_BEND_CENTER == 8192

Undefined == "undefined"

\* src/unnamed/part_000: commandTable, a lookup by status byte
commandTable(status) ==
    IF status \in 128..143 THEN "noteoff"
    ELSE IF status \in 144..159 THEN "noteon"
    ELSE IF status \in 176..191 THEN "controlchange"
    ELSE IF status \in 224..239 THEN "pitchbend"
    ELSE Undefined

\* An index that gives the first note-off status for every command
commandIndexOfNoteOff(command) == NOTE_OFF_BASE

\* src/unnamed/part_000: commandIndex
commandIndex(command) ==
    CASE command = "noteoff" -> NOTE_OFF_BASE
      [] command = "noteon" -> NOTE_ON_BASE
      [] command = "controlchange" -> CONTROL_CHANGE_BASE
      [] command = "pitchbend" -> PITCH_BEND_BASE

\* A controller table that takes every controller for the sustain pedal
controlCommandTableEveryController(control) == "sustain"

\* src/src/controlCommands.ts: controlCommandTable
controlCommandTable(control) ==
    IF control = SUSTAIN_CONTROLLER THEN "sustain" ELSE Undefined

\* `port.id || 'unknown'`: an empty raw id falls back to 'unknown'
InputId(rawId) == IF rawId = "" THEN "unknown" ELSE rawId

(***************************************************************************)
(* Insertion-ordered containers.                                           *)
(***************************************************************************)
Range(s) == { s[i] : i \in 1..Len(s) }

\* Set.add on an insertion-ordered set
SeqAdd(s, x) == IF x \in Range(s) THEN s ELSE Append(s, x)

\* Set.delete on an insertion-ordered set
SeqDelete(s, x) == SelectSeq(s, LAMBDA y : y # x)

\* Map.set of a new or existing key on a function
MapSet(f, k, v) == [ x \in DOMAIN f \cup {k} |-> IF x = k THEN v ELSE f[x] ]

\* Map.delete on a function
MapDelete(f, k) == [ x \in DOMAIN f \ {k} |-> f[x] ]

EmptyMap == [ x \in {} |-> {} ]

(***************************************************************************)
(* The subscription registry.                                              *)
(***************************************************************************)
\* getEventHandlers: the handlers of (channel, event), <<>> when any level is absent
getEventHandlers(reg, event, channel) ==
    IF reg.null THEN <<>>
    ELSE IF channel \notin DOMAIN reg.map THEN <<>>
    ELSE IF event \notin DOMAIN reg.map[channel] THEN <<>>
    ELSE reg.map[channel][event]

\* One emit() call as a value
Emission(event, payload, channel) ==
    [ event |-> event, payload |-> payload, channel |-> channel ]

\* An emit without the wildcard fan-out
emitOwnChannelOnly(reg, e) ==
    LET own == getEventHandlers(reg, e.event, e.channel)
    IN  [ i \in 1..Len(own) |->
            [ handler |-> own[i], event |-> e.event, payload |-> e.payload,
              channel |-> e.channel ] ]

\* An emit that invokes every handler twice
emitDuplicating(reg, e) ==
    LET own == getEventHandlers(reg, e.event, e.channel)
        wild == IF e.channel # WILDCARD
                THEN getEventHandlers(reg, e.event, WILDCARD)
                ELSE <<>>
        all == own \o wild \o own \o wild
    IN  [ i \in 1..Len(all) |->
            [ handler |-> all[i], event |-> e.event, payload |-> e.payload,
              channel |-> e.channel ] ]

\* An emit that skips a wildcard handler already invoked for the channel
emitOncePerHandler(reg, e) ==
    LET own == getEventHandlers(reg, e.event, e.channel)
        wild == IF e.channel # WILDCARD
                THEN SelectSeq(getEventHandlers(reg, e.event, WILDCARD),
                               LAMBDA h : h \notin Range(own))
                ELSE <<>>
        all == own \o wild
    IN  [ i \in 1..Len(all) |->
            [ handler |-> all[i], event |-> e.event, payload |-> e.payload,
              channel |-> e.channel ] ]

\* An emit that invokes the wildcard handlers before those of the channel
emitWildcardFirst(reg, e) ==
    LET own == getEventHandlers(reg, e.event, e.channel)
        wild == IF e.channel # WILDCARD
                THEN getEventHandlers(reg, e.event, WILDCARD)
                ELSE <<>>
        all == wild \o own
    IN  [ i \in 1..Len(all) |->
            [ handler |-> all[i], event |-> e.event, payload |-> e.payload,
              channel |-> e.channel ] ]

\* An emit that fans out to the wildcard handlers whatever the channel is
emitWildcardAlways(reg, e) ==
    LET own == getEventHandlers(reg, e.event, e.channel)
        wild == getEventHandlers(reg, e.event, WILDCARD)
        all == own \o wild
    IN  [ i \in 1..Len(all) |->
            [ handler |-> all[i], event |-> e.event, payload |-> e.payload,
              channel |-> e.channel ] ]

\* emit: the handlers of (channel, event) in order, then those of (-1, event)
\* when the channel is concrete
emit(reg, e) ==
    LET own == getEventHandlers(reg, e.event, e.channel)
        wild == IF e.channel # WILDCARD
                THEN getEventHandlers(reg, e.event, WILDCARD)
                ELSE <<>>
        all == own \o wild
    IN  [ i \in 1..Len(all) |->
            [ handler |-> all[i], event |-> e.event, payload |-> e.payload,
              channel |-> e.channel ] ]

RECURSIVE emitAll(_, _)
\* The handler invocations of a sequence of emit() calls
emitAll(reg, es) ==
    IF es = <<>> THEN <<>>
    ELSE emit(reg, Head(es)) \o emitAll(reg, Tail(es))


(***************************************************************************)
(* The note trackers.  A tracker value t is the pair of maps               *)
(* [global |-> activeNotes, byDevice |-> activeNotesByDevice].             *)
(***************************************************************************)
NoDevice == ""

\* Map.has on a device's insertion-ordered channel map
HasChannel(deviceNotes, channel) ==
    \E i \in 1..Len(deviceNotes) : deviceNotes[i].channel = channel

\* A note-on that is tracked globally only
trackNoteOnGlobalOnly(t, channel, note, deviceId) ==
    [ global |-> MapSet(t.global, channel,
                        (IF channel \in DOMAIN t.global
                         THEN t.global[channel] ELSE {}) \cup {note}),
      byDevice |-> t.byDevice ]

\* trackNoteOn: add to the global set and, with a device id, to the device's set
trackNoteOn(t, channel, note, deviceId) ==
    LET old == IF channel \in DOMAIN t.global THEN t.global[channel] ELSE {}
        global == MapSet(t.global, channel, old \cup {note})
        dn0 == IF deviceId \in DOMAIN t.byDevice
               THEN t.byDevice[deviceId] ELSE <<>>
        dn1 == IF HasChannel(dn0, channel) THEN dn0
               ELSE Append(dn0, [channel |-> channel, notes |-> <<>>])
        dn2 == [ i \in 1..Len(dn1) |->
                   IF dn1[i].channel = channel
                   THEN [channel |-> channel, notes |-> SeqAdd(dn1[i].notes, note)]
                   ELSE dn1[i] ]
    IN  [ global |-> global,
          byDevice |-> IF deviceId # NoDevice
                       THEN MapSet(t.byDevice, deviceId, dn2)
                       ELSE t.byDevice ]

\* A note-off that is tracked globally only
trackNoteOffGlobalOnly(t, channel, note, deviceId) ==
    [ global |-> IF channel \in DOMAIN t.global
                 THEN IF t.global[channel] \ {note} = {}
                      THEN MapDelete(t.global, channel)
                      ELSE MapSet(t.global, channel, t.global[channel] \ {note})
                 ELSE t.global,
      byDevice |-> t.byDevice ]

\* A note-off that leaves the emptied sets and device entries in place
trackNoteOffKeepEmpty(t, channel, note, deviceId) ==
    LET global ==
            IF channel \in DOMAIN t.global
            THEN MapSet(t.global, channel, t.global[channel] \ {note})
            ELSE t.global
        dn0 == t.byDevice[deviceId]
        dn1 == [ i \in 1..Len(dn0) |->
                   IF dn0[i].channel = channel
                   THEN [channel |-> channel, notes |-> SeqDelete(dn0[i].notes, note)]
                   ELSE dn0[i] ]
    IN  [ global |-> global,
          byDevice |-> IF deviceId # NoDevice /\ deviceId \in DOMAIN t.byDevice
                       THEN MapSet(t.byDevice, deviceId, dn1)
                       ELSE t.byDevice ]

\* trackNoteOff: remove from both, pruning emptied sets and device entries
trackNoteOff(t, channel, note, deviceId) ==
    LET global ==
            IF channel \in DOMAIN t.global
            THEN LET left == t.global[channel] \ {note}
                 IN  IF left = {} THEN MapDelete(t.global, channel)
                     ELSE MapSet(t.global, channel, left)
            ELSE t.global
        dn0 == t.byDevice[deviceId]
        dn1 == [ i \in 1..Len(dn0) |->
                   IF dn0[i].channel = channel
                   THEN [channel |-> channel, notes |-> SeqDelete(dn0[i].notes, note)]
                   ELSE dn0[i] ]
        dn2 == SelectSeq(dn1, LAMBDA e : ~(e.channel = channel /\ e.notes = <<>>))
    IN  [ global |-> global,
          byDevice |-> IF deviceId # NoDevice /\ deviceId \in DOMAIN t.byDevice
                       THEN IF dn2 = <<>> THEN MapDelete(t.byDevice, deviceId)
                            ELSE MapSet(t.byDevice, deviceId, dn2)
                       ELSE t.byDevice ]

\* The tracker tr as each emit() call of out finds it
SeenAll(tr, out) == [ i \in 1..Len(out) |-> tr ]

RECURSIVE NoteOffsOf(_, _)
\* notes.forEach(note => emit(NOTE_OFF, {note}, channel))
NoteOffsOf(notes, channel) ==
    IF notes = <<>> THEN <<>>
    ELSE << Emission("noteoff", [note |-> Head(notes)], channel) >>
         \o NoteOffsOf(Tail(notes), channel)

RECURSIVE DeviceNoteOffs(_)
\* deviceNotes.forEach((notes, channel) => ...)
DeviceNoteOffs(deviceNotes) ==
    IF deviceNotes = <<>> THEN <<>>
    ELSE NoteOffsOf(Head(deviceNotes).notes, Head(deviceNotes).channel)
         \o DeviceNoteOffs(Tail(deviceNotes))

\* A disconnect that releases only the first channel the device holds
handleDeviceDisconnectFirstChannel(t, deviceId) ==
    IF deviceId \notin DOMAIN t.byDevice
    THEN [ t |-> t, out |-> <<>>, seen |-> <<>> ]
    ELSE [ t |-> [ global |-> t.global,
                   byDevice |-> MapDelete(t.byDevice, deviceId) ],
           out |-> DeviceNoteOffs(SubSeq(t.byDevice[deviceId], 1, 1)),
           seen |-> SeenAll(t, DeviceNoteOffs(SubSeq(t.byDevice[deviceId], 1, 1))) ]

\* A disconnect that forgets the notes of every device
handleDeviceDisconnectEveryDevice(t, deviceId) ==
    IF deviceId \notin DOMAIN t.byDevice
    THEN [ t |-> t, out |-> <<>>, seen |-> <<>> ]
    ELSE [ t |-> [ global |-> t.global, byDevice |-> EmptyMap ],
           out |-> DeviceNoteOffs(t.byDevice[deviceId]),
           seen |-> SeenAll(t, DeviceNoteOffs(t.byDevice[deviceId])) ]

\* A disconnect that keeps the device's entry
handleDeviceDisconnectKeepEntry(t, deviceId) ==
    IF deviceId \notin DOMAIN t.byDevice
    THEN [ t |-> t, out |-> <<>>, seen |-> <<>> ]
    ELSE [ t |-> t, out |-> DeviceNoteOffs(t.byDevice[deviceId]),
           seen |-> SeenAll(t, DeviceNoteOffs(t.byDevice[deviceId])) ]

\* A disconnect that deletes the device's entry and emits nothing
handleDeviceDisconnectSilent(t, deviceId) ==
    IF deviceId \notin DOMAIN t.byDevice
    THEN [ t |-> t, out |-> <<>>, seen |-> <<>> ]
    ELSE [ t |-> [ global |-> t.global,
                   byDevice |-> MapDelete(t.byDevice, deviceId) ],
           out |-> <<>>, seen |-> <<>> ]

\* handleDeviceDisconnect: a NoteOff per note the device holds, then its entry
\* is deleted; the global map is not touched.  The handlers of the NoteOffs
\* run while the entry is still there
handleDeviceDisconnect(t, deviceId) ==
    IF deviceId \notin DOMAIN t.byDevice
    THEN [ t |-> t, out |-> <<>>, seen |-> <<>> ]
    ELSE [ t |-> [ global |-> t.global,
                   byDevice |-> MapDelete(t.byDevice, deviceId) ],
           out |-> DeviceNoteOffs(t.byDevice[deviceId]),
           seen |-> SeenAll(t, DeviceNoteOffs(t.byDevice[deviceId])) ]

(***************************************************************************)
(* The decoder: each handler returns the tracker, its emit() calls, and    *)
(* the tracker as the handlers invoked by each emit() call find it.        *)
(***************************************************************************)
\* A note-off that is announced only for a note recorded as sounding
onNoteOffWhenSounding(t, channel, note, deviceId) ==
    [ t |-> trackNoteOff(t, channel, note, deviceId),
      out |-> IF channel \in DOMAIN t.global /\ note \in t.global[channel]
              THEN << Emission("noteoff", [note |-> note], channel) >>
              ELSE <<>>,
      seen |-> IF channel \in DOMAIN t.global /\ note \in t.global[channel]
               THEN << trackNoteOff(t, channel, note, deviceId) >>
               ELSE <<>> ]

\* A note-off that emits before it updates the trackers
onNoteOffEmitFirst(t, channel, note, deviceId) ==
    [ t |-> trackNoteOff(t, channel, note, deviceId),
      out |-> << Emission("noteoff", [note |-> note], channel) >>,
      seen |-> << t >> ]

\* onNoteOff: trackNoteOff, then emit
onNoteOff(t, channel, note, deviceId) ==
    [ t |-> trackNoteOff(t, channel, note, deviceId),
      out |-> << Emission("noteoff", [note |-> note], channel) >>,
      seen |-> << trackNoteOff(t, channel, note, deviceId) >> ]

\* A note-on that takes velocity 0 for a note-on
onNoteOnAnyVelocity(t, channel, note, velocity, deviceId) ==
    [ t |-> trackNoteOn(t, channel, note, deviceId),
      out |-> << Emission("noteon", [note |-> note, velocity |-> velocity],
                          channel) >>,
      seen |-> << trackNoteOn(t, channel, note, deviceId) >> ]

\* onNoteOn: a note-on without velocity is a note-off; otherwise
\* trackNoteOn, then emit
onNoteOn(t, channel, note, velocity, deviceId) ==
    IF velocity = 0
    THEN onNoteOff(t, channel, note, deviceId)
    ELSE [ t |-> trackNoteOn(t, channel, note, deviceId),
           out |-> << Emission("noteon", [note |-> note, velocity |-> velocity],
                               channel) >>,
           seen |-> << trackNoteOn(t, channel, note, deviceId) >> ]

\* A pitch bend that takes the first data byte for the most significant one
onPitchBendBytesSwapped(t, channel, lsb, msb) ==
    [ t |-> t,
      out |-> << Emission("pitchbend",
                          [value |-> [num |-> (lsb * 128 + msb) - PITCH_BEND_CENTER,
                                      den |-> PITCH_BEND_CENTER]],
                          channel) >>,
      seen |-> << t >> ]

\* onPitchBend: value = (rawValue - 8192) / 8192, kept as a fraction
onPitchBend(t, channel, lsb, msb) ==
    LET rawValue == msb * 128 + lsb
    IN  [ t |-> t,
          out |-> << Emission("pitchbend",
                              [value |-> [num |-> rawValue - PITCH_BEND_CENTER,
                                          den |-> PITCH_BEND_CENTER]],
                              channel) >>,
          seen |-> << t >> ]

\* A control change whose sustain threshold is exclusive
onControlChangeAboveThreshold(t, channel, control, value) ==
    IF controlCommandTable(control) = "sustain"
    THEN [ t |-> t,
           out |-> << Emission(IF value > SUSTAIN_THRESHOLD
                               THEN "sustainon" ELSE "sustainoff",
                               [value |-> value], channel) >>,
           seen |-> << t >> ]
    ELSE [ t |-> t, out |-> <<>>, seen |-> <<>> ]

\* onControlChange: only the sustain controller emits
onControlChange(t, channel, control, value) ==
    IF controlCommandTable(control) = "sustain"
    THEN [ t |-> t,
           out |-> << Emission(IF value >= SUSTAIN_THRESHOLD
                               THEN "sustainon" ELSE "sustainoff",
                               [value |-> value], channel) >>,
           seen |-> << t >> ]
    ELSE [ t |-> t, out |-> <<>>, seen |-> <<>> ]

\* inputs.get(id): the indices of the record of id (at most one)
InputIndex(ins, id) == { i \in 1..Len(ins) : ins[i].id = id }

KnownIds(ins) == { ins[i].id : i \in 1..Len(ins) }

\* input.isEnabled() of the record of id
InputEnabled(ins, id) == \A i \in InputIndex(ins, id) : ins[i].enabled

\* A gate that looks at the device's flag only
AcceptedDeviceGateOnly(en, ins, inputId) ==
    inputId = NoDevice \/ InputEnabled(ins, inputId)

\* A gate that looks at the global flag only
AcceptedGlobalGateOnly(en, ins, inputId) == en

\* A gate that lets a message pass when either flag is on
AcceptedEitherGate(en, ins, inputId) ==
    en \/ (inputId \in KnownIds(ins) /\ InputEnabled(ins, inputId))

\* A gate that lets through the messages of known devices only
AcceptedKnownDevicesOnly(en, ins, inputId) ==
    en /\ inputId \in KnownIds(ins) /\ InputEnabled(ins, inputId)

\* The two gates of onMessage
Accepted(en, ins, inputId) ==
    en /\ (inputId = NoDevice \/ InputEnabled(ins, inputId))

\* A message handler whose closed gate still releases the note of a note-off
onMessageTrackingDropped(t, en, ins, status, data1, data2, inputId) ==
    LET command == commandTable(status)
        channel == status - commandIndex(command)
    IN  IF ~Accepted(en, ins, inputId)
        THEN [ t |-> IF command = "noteoff"
                     THEN trackNoteOff(t, channel, data1, inputId)
                     ELSE t,
               out |-> <<>>, seen |-> <<>> ]
        ELSE IF command = Undefined THEN [ t |-> t, out |-> <<>>, seen |-> <<>> ]
        ELSE IF command = "noteon"
             THEN onNoteOn(t, channel, data1, data2, inputId)
        ELSE IF command = "noteoff"
             THEN onNoteOff(t, channel, data1, inputId)
        ELSE IF command = "pitchbend"
             THEN onPitchBend(t, channel, data1, data2)
        ELSE onControlChange(t, channel, data1, data2)

\* onMessage: gates, table lookup, channel, dispatch
onMessage(t, en, ins, status, data1, data2, inputId) ==
    LET command == commandTable(status)
        channel == status - commandIndex(command)
    IN  IF ~Accepted(en, ins, inputId) THEN [ t |-> t, out |-> <<>>, seen |-> <<>> ]
        ELSE IF command = Undefined THEN [ t |-> t, out |-> <<>>, seen |-> <<>> ]
        ELSE IF command = "noteon"
             THEN onNoteOn(t, channel, data1, data2, inputId)
        ELSE IF command = "noteoff"
             THEN onNoteOff(t, channel, data1, inputId)
        ELSE IF command = "pitchbend"
             THEN onPitchBend(t, channel, data1, data2)
        ELSE onControlChange(t, channel, data1, data2)

Tracker == [ global |-> activeNotes, byDevice |-> activeNotesByDevice ]

(***************************************************************************)
(* Bounds of the model and the inputs the environment draws from.          *)
(***************************************************************************)
MaxPending == 1     \* requestAccess calls suspended at once
MaxHeld == 2        \* notes recorded per-device at once, over all devices
MaxRegistered == 2  \* handler registrations at once (dispatch specification)

Ports == {"in1", "in2"}
Channels == {0, 1}
Notes == {60, 61}
Velocities == {0, 100}
NoteStatuses ==
    { NOTE_OFF_BASE + c : c \in Channels } \cup { NOTE_ON_BASE + c : c \in Channels }
PortStates == {"connected", "disconnected"}
Handlers == {"h1", "h2"}
DispatchEvents == {"noteon", "noteoff", "inputdisconnected"}
DispatchChannels == {WILDCARD} \cup Channels

(***************************************************************************)
(* The initial state: the static fields of the class as declared.          *)
(***************************************************************************)
Init ==
    /\ eventHandlersByChannel = [ null |-> FALSE, map |-> EmptyMap ]
    /\ accessStatus = "unrequested"
    /\ midiAccess = FALSE
    /\ enabled = TRUE
    /\ activeNotes = EmptyMap
    /\ activeNotesByDevice = EmptyMap
    /\ inputs = <<>>
    /\ pending = 0
    /\ boundPorts = {}
    /\ stateChangeBound = FALSE
    /\ emitted = <<>>
    /\ delivered = <<>>
    /\ thrown = FALSE
    /\ seen = <<>>
    /\ lastOnByDevice = {}
    /\ lastOnGlobal = {}
    /\ lastCall = [ op |-> "init" ]
    /\ hostRequests = 0
    /\ again = FALSE
    /\ unsubscribed = 0

RECURSIVE AfterNoteEvents(_, _)
\* History: the <<channel, note>> pairs whose latest note event is a NoteOn,
\* after the emit() calls `out` in order
AfterNoteEvents(on, out) ==
    IF out = <<>> THEN on
    ELSE LET e == Head(out)
             next == IF e.event = "noteon"
                     THEN on \cup { <<e.channel, e.payload.note>> }
                     ELSE IF e.event = "noteoff"
                     THEN on \ { <<e.channel, e.payload.note>> }
                     ELSE on
         IN  AfterNoteEvents(next, Tail(out))

\* A requestAccess that contacts the host whatever the status is
requestAccessAlways(status, n) == n + 1

\* requestAccess up to its await, on the number n of requests the host has
\* not answered yet: it returns at once unless the status is UNREQUESTED
requestAccess(status, n) ==
    IF status # "unrequested" THEN n ELSE n + 1

\* History: which call ran, whether it repeats the one before, and how many
\* times the host was asked for access since the last reset
\* The number of handlers a registry holds on a channel, over all kinds
HandlersOnChannel(reg, channel) ==
    IF reg.null \/ channel \notin DOMAIN reg.map THEN 0
    ELSE Cardinality({ k \in (DOMAIN reg.map[channel]) \X Handlers :
                         k[2] \in Range(reg.map[channel][k[1]]) })

Called(call) ==
    /\ lastCall' = call
    /\ unsubscribed' = IF call.op = "unsubscribeToChannel"
                       THEN HandlersOnChannel(eventHandlersByChannel, call.channel)
                       ELSE 0
    /\ again' = (lastCall = call /\ call.op # "message")
    /\ hostRequests' =
          IF call.op = "reset" THEN 0
          ELSE IF call.op = "requestAccess"
               THEN hostRequests + (requestAccess(accessStatus, pending) - pending)
               ELSE hostRequests

\* What a callback leaves behind: its emit() calls and their deliveries
Outcome(call, out) ==
    /\ emitted' = out
    /\ delivered' = emitAll(eventHandlersByChannel, out)
    /\ thrown' = FALSE
    /\ lastOnGlobal' = AfterNoteEvents(lastOnGlobal, out)
    /\ Called(call)

(***************************************************************************)
(* Raw messages.                                                           *)
(***************************************************************************)
\* input.onmidimessage = (msg) => HuMIDI.onMessage(msg, inputId)
OnMessage(port, status, data1, data2) ==
    /\ port \in boundPorts
    /\ LET r == onMessage(Tracker, enabled, inputs, status, data1, data2,
                          InputId(port))
       IN  /\ activeNotes' = r.t.global
           /\ activeNotesByDevice' = r.t.byDevice
           /\ seen' = r.seen
           /\ Outcome([ op |-> "message", port |-> port, status |-> status,
                         data1 |-> data1, data2 |-> data2 ], r.out)
    /\ lastOnByDevice' =
          LET id == InputId(port)
              key == << id, status - (IF status >= 144 THEN 144 ELSE 128), data1 >>
          IN  IF ~Accepted(enabled, inputs, id) \/ status \notin 128..159
              THEN lastOnByDevice
              ELSE IF status \in 144..159 /\ data2 > 0
                   THEN lastOnByDevice \cup {key}
                   ELSE lastOnByDevice \ {key}
    /\ UNCHANGED << eventHandlersByChannel, accessStatus, midiAccess, enabled,
                    inputs, pending, boundPorts, stateChangeBound >>

(***************************************************************************)
(* Device records and connectivity.                                        *)
(***************************************************************************)
\* new MIDIInput(info): enabled by default
MIDIInput(id, state) == [ id |-> id, state |-> state, enabled |-> TRUE ]

\* A lookup that puts a new MIDIInput in the place of the one it finds
EnsureInputReplacing(ins, id, state) ==
    IF id \in KnownIds(ins)
    THEN [ i \in 1..Len(ins) |->
             IF ins[i].id = id THEN MIDIInput(id, state) ELSE ins[i] ]
    ELSE Append(ins, MIDIInput(id, state))

\* inputs.get(id) || inputs.set(id, new MIDIInput(info))
EnsureInput(ins, id, state) ==
    IF id \in KnownIds(ins) THEN ins ELSE Append(ins, MIDIInput(id, state))

RECURSIVE setupInputHandlers(_, _)
\* setupInputHandlers: a record per enumerated input not yet known
setupInputHandlers(ins, hostInputs) ==
    IF hostInputs = <<>> THEN ins
    ELSE setupInputHandlers(
             EnsureInput(ins, InputId(Head(hostInputs).id), Head(hostInputs).state),
             Tail(hostInputs))

\* A state change that announces the disconnect before releasing the notes
onStateChangeAnnounceFirst(t, ins, rawId, state) ==
    LET id == InputId(rawId)
        ins2 == EnsureInput(ins, id, state)
        d == handleDeviceDisconnect(t, id)
    IN  IF state = "connected"
        THEN [ t |-> t, inputs |-> ins2, bind |-> {rawId},
               out |-> << Emission("inputconnected", [input |-> id], WILDCARD) >>,
               seen |-> << t >> ]
        ELSE [ t |-> d.t, inputs |-> ins2, bind |-> {},
               out |-> << Emission("inputdisconnected", [input |-> id], WILDCARD) >>
                       \o d.out,
               seen |-> << t >> \o d.seen ]

\* A state change that is dropped when the device's flag is off
onStateChangeDeviceGated(t, ins, rawId, state) ==
    LET id == InputId(rawId)
        ins2 == EnsureInput(ins, id, state)
        d == handleDeviceDisconnect(t, id)
    IN  IF id \in KnownIds(ins) /\ ~InputEnabled(ins, id)
        THEN [ t |-> t, inputs |-> ins, bind |-> {}, out |-> <<>>, seen |-> <<>> ]
        ELSE IF state = "connected"
        THEN [ t |-> t, inputs |-> ins2, bind |-> {rawId},
               out |-> << Emission("inputconnected", [input |-> id], WILDCARD) >>,
               seen |-> << t >> ]
        ELSE [ t |-> d.t, inputs |-> ins2, bind |-> {},
               out |-> d.out \o
                       << Emission("inputdisconnected", [input |-> id], WILDCARD) >>,
               seen |-> d.seen \o << d.t >> ]

\* A state change whose connect branch enables the device again
onStateChangeConnectEnables(t, ins, rawId, state) ==
    LET id == InputId(rawId)
        ins2 == EnsureInput(ins, id, state)
        d == handleDeviceDisconnect(t, id)
    IN  IF state = "connected"
        THEN [ t |-> t,
               inputs |-> [ i \in 1..Len(ins2) |->
                              IF ins2[i].id = id
                              THEN [ ins2[i] EXCEPT !.enabled = TRUE ]
                              ELSE ins2[i] ],
               bind |-> {rawId},
               out |-> << Emission("inputconnected", [input |-> id], WILDCARD) >>,
               seen |-> << t >> ]
        ELSE [ t |-> d.t, inputs |-> ins2, bind |-> {},
               out |-> d.out \o
                       << Emission("inputdisconnected", [input |-> id], WILDCARD) >>,
               seen |-> d.seen \o << d.t >> ]

\* A state change whose connect branch leaves the port's messages unbound
onStateChangeConnectUnbound(t, ins, rawId, state) ==
    LET id == InputId(rawId)
        ins2 == EnsureInput(ins, id, state)
        d == handleDeviceDisconnect(t, id)
    IN  IF state = "connected"
        THEN [ t |-> t, inputs |-> ins2, bind |-> {},
               out |-> << Emission("inputconnected", [input |-> id], WILDCARD) >>,
               seen |-> << t >> ]
        ELSE [ t |-> d.t, inputs |-> ins2, bind |-> {},
               out |-> d.out \o
                       << Emission("inputdisconnected", [input |-> id], WILDCARD) >>,
               seen |-> d.seen \o << d.t >> ]

\* onStateChange for an input port
onStateChange(t, ins, rawId, state) ==
    LET id == InputId(rawId)
        ins2 == EnsureInput(ins, id, state)
        d == handleDeviceDisconnect(t, id)
    IN  IF state = "connected"
        THEN [ t |-> t, inputs |-> ins2, bind |-> {rawId},
               out |-> << Emission("inputconnected", [input |-> id], WILDCARD) >>,
               seen |-> << t >> ]
        ELSE [ t |-> d.t, inputs |-> ins2, bind |-> {},
               out |-> d.out \o
                       << Emission("inputdisconnected", [input |-> id], WILDCARD) >>,
               seen |-> d.seen \o << d.t >> ]

\* midiAccess.onstatechange = HuMIDI.onStateChange
OnStateChange(rawId, type, state) ==
    /\ stateChangeBound
    /\ IF type # "input"
       THEN /\ Outcome([ op |-> "statechange", port |-> rawId, type |-> type,
                         state |-> state ], <<>>)
            /\ seen' = <<>>
            /\ UNCHANGED << activeNotes, activeNotesByDevice, inputs, boundPorts,
                            lastOnByDevice >>
       ELSE LET r == onStateChange(Tracker, inputs, rawId, state)
            IN  /\ activeNotes' = r.t.global
                /\ activeNotesByDevice' = r.t.byDevice
                /\ inputs' = r.inputs
                /\ boundPorts' = boundPorts \cup r.bind
                /\ seen' = r.seen
                /\ Outcome([ op |-> "statechange", port |-> rawId, type |-> type,
                             state |-> state ], r.out)
                /\ lastOnByDevice' =
                      IF state = "disconnected"
                      THEN { k \in lastOnByDevice : k[1] # InputId(rawId) }
                      ELSE lastOnByDevice
    /\ UNCHANGED << eventHandlersByChannel, accessStatus, midiAccess, enabled,
                    pending, stateChangeBound >>

(***************************************************************************)
(* requestAccess: the call, and the host's answer to the awaited request.  *)
(***************************************************************************)
\* requestAccess up to the await, with at most cap requests unanswered
RequestAccessUpTo(cap) ==
    /\ requestAccess(accessStatus, pending) <= cap
    /\ pending' = requestAccess(accessStatus, pending)
    /\ seen' = <<>>
    /\ Outcome([ op |-> "requestAccess" ], <<>>)
    /\ UNCHANGED << eventHandlersByChannel, accessStatus, midiAccess, enabled,
                    activeNotes, activeNotesByDevice, inputs, boundPorts,
                    stateChangeBound, lastOnByDevice >>

\* requestAccess up to the await: a no-op once the status is settled
RequestAccess == RequestAccessUpTo(MaxPending)

\* A continuation that leaves the global gate as it finds it
requestAccessResolvedKeepsGate(en) ==
    [ midiAccess |-> TRUE, accessStatus |-> "accepted", enabled |-> en ]

\* requestAccess after the await resolved: the MIDIAccess object is stored,
\* the status is ACCEPTED and the global gate is enabled
requestAccessResolved(en) ==
    [ midiAccess |-> TRUE, accessStatus |-> "accepted", enabled |-> TRUE ]

\* The host grants: the rest of requestAccess runs without suspension
HostGrant(hostInputs) ==
    /\ pending > 0
    /\ pending' = pending - 1
    /\ midiAccess' = requestAccessResolved(enabled).midiAccess
    /\ accessStatus' = requestAccessResolved(enabled).accessStatus
    /\ enabled' = requestAccessResolved(enabled).enabled
    /\ inputs' = setupInputHandlers(inputs, hostInputs)
    /\ boundPorts' = boundPorts \cup { hostInputs[i].id : i \in 1..Len(hostInputs) }
    /\ stateChangeBound' = TRUE
    /\ seen' = <<>>
    /\ Outcome([ op |-> "granted", inputs |-> hostInputs ], <<>>)
    /\ UNCHANGED << eventHandlersByChannel, activeNotes, activeNotesByDevice,
                    lastOnByDevice >>

\* A catch branch that raises the error and leaves the status as it was
requestAccessCatchKeepsStatus(status) ==
    [ accessStatus |-> status, thrown |-> TRUE ]

\* The catch branch of requestAccess: the status is DENIED and an Error
\* ('MIDI permissions denied') is thrown
requestAccessCatch(status) ==
    [ accessStatus |-> "denied", thrown |-> TRUE ]

\* The host refuses: the catch branch runs and the call ends there
HostDeny ==
    /\ pending > 0
    /\ pending' = pending - 1
    /\ accessStatus' = requestAccessCatch(accessStatus).accessStatus
    /\ emitted' = <<>>
    /\ delivered' = <<>>
    /\ seen' = <<>>
    /\ thrown' = requestAccessCatch(accessStatus).thrown
    /\ Called([ op |-> "denied" ])
    /\ UNCHANGED << eventHandlersByChannel, midiAccess, enabled, activeNotes,
                    activeNotesByDevice, inputs, boundPorts, stateChangeBound,
                    lastOnByDevice, lastOnGlobal >>

(***************************************************************************)
(* The gates and reset.                                                    *)
(***************************************************************************)
\* setEnabled
SetEnabled(b) ==
    /\ enabled' = b
    /\ seen' = <<>>
    /\ Outcome([ op |-> "setEnabled", enabled |-> b ], <<>>)
    /\ UNCHANGED << eventHandlersByChannel, accessStatus, midiAccess,
                    activeNotes, activeNotesByDevice, inputs, pending,
                    boundPorts, stateChangeBound, lastOnByDevice >>

\* MIDIInput.enable / MIDIInput.disable on a handle of getInputs()
SetInputEnabled(id, b) ==
    /\ id \in KnownIds(inputs)
    /\ inputs' = [ i \in 1..Len(inputs) |->
                     IF inputs[i].id = id
                     THEN [ inputs[i] EXCEPT !.enabled = b ]
                     ELSE inputs[i] ]
    /\ seen' = <<>>
    /\ Outcome([ op |-> "setInputEnabled", id |-> id, enabled |-> b ], <<>>)
    /\ UNCHANGED << eventHandlersByChannel, accessStatus, midiAccess, enabled,
                    activeNotes, activeNotesByDevice, pending, boundPorts,
                    stateChangeBound, lastOnByDevice >>

\* A reset that leaves the registry as it is
resetKeepingHandlers(reg) ==
    [ eventHandlersByChannel |-> reg,
      accessStatus |-> "unrequested",
      midiAccess |-> FALSE,
      enabled |-> TRUE,
      activeNotes |-> EmptyMap,
      activeNotesByDevice |-> EmptyMap,
      inputs |-> <<>> ]

\* reset: the static fields after it; the registry reg it finds is dropped
reset(reg) ==
    [ eventHandlersByChannel |-> [ null |-> TRUE, map |-> EmptyMap ],
      accessStatus |-> "unrequested",
      midiAccess |-> FALSE,
      enabled |-> TRUE,
      activeNotes |-> EmptyMap,
      activeNotesByDevice |-> EmptyMap,
      inputs |-> <<>> ]

\* reset: the callbacks bound at the host and a suspended request stay
Reset ==
    /\ eventHandlersByChannel' = reset(eventHandlersByChannel).eventHandlersByChannel
    /\ accessStatus' = reset(eventHandlersByChannel).accessStatus
    /\ midiAccess' = reset(eventHandlersByChannel).midiAccess
    /\ enabled' = reset(eventHandlersByChannel).enabled
    /\ activeNotes' = reset(eventHandlersByChannel).activeNotes
    /\ activeNotesByDevice' = reset(eventHandlersByChannel).activeNotesByDevice
    /\ inputs' = reset(eventHandlersByChannel).inputs
    /\ emitted' = <<>>
    /\ delivered' = <<>>
    /\ seen' = <<>>
    /\ thrown' = FALSE
    /\ lastOnByDevice' = {}
    /\ lastOnGlobal' = {}
    /\ Called([ op |-> "reset" ])
    /\ UNCHANGED << pending, boundPorts, stateChangeBound >>

(***************************************************************************)
(* The registry's operations.                                              *)
(***************************************************************************)
\* A registration that keeps a list of handlers instead of a set
onAppending(reg, event, handler, channel) ==
    LET m0 == reg.map
        ch0 == IF channel \in DOMAIN m0 THEN m0[channel] ELSE EmptyMap
        hs0 == IF event \in DOMAIN ch0 THEN ch0[event] ELSE <<>>
    IN  [ null |-> FALSE,
          map |-> MapSet(m0, channel, MapSet(ch0, event, Append(hs0, handler))) ]

\* on: create the missing levels, then Set.add
on(reg, event, handler, channel) ==
    LET m0 == reg.map
        ch0 == IF channel \in DOMAIN m0 THEN m0[channel] ELSE EmptyMap
        hs0 == IF event \in DOMAIN ch0 THEN ch0[event] ELSE <<>>
    IN  [ null |-> FALSE,
          map |-> MapSet(m0, channel, MapSet(ch0, event, SeqAdd(hs0, handler))) ]

\* An off that empties the whole handler set of (channel, event)
offWholeSet(reg, event, handler, channel) ==
    IF \/ reg.null
       \/ channel \notin DOMAIN reg.map
       \/ event \notin DOMAIN reg.map[channel]
    THEN reg
    ELSE [ reg EXCEPT !.map[channel][event] = <<>> ]

\* off: Set.delete on the set of (channel, event), when there is one
off(reg, event, handler, channel) ==
    IF \/ reg.null
       \/ channel \notin DOMAIN reg.map
       \/ event \notin DOMAIN reg.map[channel]
    THEN reg
    ELSE [ reg EXCEPT !.map[channel][event] = SeqDelete(@, handler) ]

\* An unsubscribe that drops the handlers of every channel
unsubscribeToEveryChannel(reg, channel) ==
    IF reg.null THEN reg
    ELSE [ reg EXCEPT !.map = EmptyMap ]

\* unsubscribeToChannel: Map.delete of the channel
unsubscribeToChannel(reg, channel) ==
    IF reg.null THEN reg
    ELSE [ reg EXCEPT !.map = MapDelete(@, channel) ]

RegistryCall(call, reg) ==
    /\ eventHandlersByChannel' = reg
    /\ Called(call)
    /\ emitted' = <<>>
    /\ delivered' = <<>>
    /\ seen' = <<>>
    /\ thrown' = FALSE
    /\ UNCHANGED << accessStatus, midiAccess, enabled, activeNotes,
                    activeNotesByDevice, inputs, pending, boundPorts,
                    stateChangeBound, lastOnByDevice, lastOnGlobal >>

On(event, handler, channel) ==
    RegistryCall([ op |-> "on", event |-> event, handler |-> handler,
                   channel |-> channel ],
                 on(eventHandlersByChannel, event, handler, channel))

Off(event, handler, channel) ==
    RegistryCall([ op |-> "off", event |-> event, handler |-> handler,
                   channel |-> channel ],
                 off(eventHandlersByChannel, event, handler, channel))

UnsubscribeToChannel(channel) ==
    RegistryCall([ op |-> "unsubscribeToChannel", channel |-> channel ],
                 unsubscribeToChannel(eventHandlersByChannel, channel))

(***************************************************************************)
(* Specification Spec: two input ports enumerated at the grant, note       *)
(* messages on two channels, connect and disconnect notifications and the  *)
(* global gate.  Nothing is subscribed.                                    *)
(***************************************************************************)
RECURSIVE HeldOnChannels(_)
HeldOnChannels(deviceNotes) ==
    IF deviceNotes = <<>> THEN 0
    ELSE Len(Head(deviceNotes).notes) + HeldOnChannels(Tail(deviceNotes))

RECURSIVE HeldOnDevices(_, _)
HeldOnDevices(byDevice, ids) ==
    IF ids = {} THEN 0
    ELSE LET d == CHOOSE x \in ids : TRUE
         IN  HeldOnChannels(byDevice[d]) + HeldOnDevices(byDevice, ids \ {d})

\* The number of notes the per-device tracker records
HeldCount == HeldOnDevices(activeNotesByDevice, DOMAIN activeNotesByDevice)

Request == RequestAccess

Grant ==
    HostGrant(<< [id |-> "in1", state |-> "connected"],
                 [id |-> "in2", state |-> "connected"] >>)

Message ==
    \E port \in Ports, status \in NoteStatuses, data1 \in Notes, data2 \in Velocities :
        /\ (status >= NOTE_ON_BASE /\ data2 > 0) => HeldCount < MaxHeld
        /\ OnMessage(port, status, data1, data2)

StateChange ==
    \E port \in Ports, state \in PortStates : OnStateChange(port, "input", state)

Gate == \E b \in BOOLEAN : SetEnabled(b)

Next ==
    \/ Request
    \/ Grant
    \/ Message
    \/ StateChange
    \/ Gate

Spec == Init /\ [][Next]_vars

(***************************************************************************)
(* Specification SpecDispatch: one input port, and handlers subscribed on  *)
(* the wildcard and on two concrete channels.                              *)
(***************************************************************************)
RECURSIVE CountHandlers(_, _)
CountHandlers(reg, keys) ==
    IF keys = {} THEN 0
    ELSE LET k == CHOOSE x \in keys : TRUE
         IN  Len(getEventHandlers(reg, k[2], k[1])) + CountHandlers(reg, keys \ {k})

\* The number of handler registrations the registry holds
RegisteredCount ==
    CountHandlers(eventHandlersByChannel, DispatchChannels \X DispatchEvents)

GrantOne == HostGrant(<< [id |-> "in1", state |-> "connected"] >>)

MessageOne ==
    \E status \in NoteStatuses, data2 \in Velocities :
        OnMessage("in1", status, 60, data2)

StateChangeOne ==
    \E state \in PortStates : OnStateChange("in1", "input", state)

Subscribe ==
    \E event \in DispatchEvents, handler \in Handlers, channel \in DispatchChannels :
        /\ RegisteredCount < MaxRegistered
        /\ On(event, handler, channel)

UnsubscribeChannel ==
    \E channel \in DispatchChannels : UnsubscribeToChannel(channel)

NextDispatch ==
    \/ Request
    \/ GrantOne
    \/ MessageOne
    \/ StateChangeOne
    \/ Subscribe
    \/ UnsubscribeChannel

SpecDispatch == Init /\ [][NextDispatch]_vars

(***************************************************************************)
(* Vocabulary of the properties.                                           *)
(***************************************************************************)
\* The per-device tracker records (channel, note) for the device
HeldBy(byDevice, id, channel, note) ==
    /\ id \in DOMAIN byDevice
    /\ \E i \in 1..Len(byDevice[id]) :
          /\ byDevice[id][i].channel = channel
          /\ note \in Range(byDevice[id][i].notes)

\* The global tracker records (channel, note)
InGlobal(global, channel, note) ==
    channel \in DOMAIN global /\ note \in global[channel]

\* The number of NoteOff{note} emissions on the channel in `out`
NoteOffCount(out, channel, note) ==
    Cardinality({ i \in 1..Len(out) :
                    /\ out[i].event = "noteoff"
                    /\ out[i].channel = channel
                    /\ out[i].payload.note = note })

NoNoteOff(out) == \A i \in 1..Len(out) : out[i].event # "noteoff"

\* The call was a disconnect notification for the input port
IsDisconnect(call, port) ==
    /\ call.op = "statechange"
    /\ call.type = "input"
    /\ call.state = "disconnected"
    /\ call.port = port

\* Both gates let a message of the port through
GatesOpen(port) ==
    /\ enabled
    /\ \A i \in 1..Len(inputs) : inputs[i].id = InputId(port) => inputs[i].enabled

InputDisconnected(port) ==
    [ event |-> "inputdisconnected", payload |-> [input |-> InputId(port)],
      channel |-> WILDCARD ]

\* The call was a disconnect notification for an input port
Disconnected(call) ==
    call.op = "statechange" /\ call.type = "input" /\ call.state = "disconnected"

(***************************************************************************)
(* C1: a disconnect notification for an input device emits exactly one     *)
(* NoteOff{note} on channel c for every (c, note) the device's per-device  *)
(* set held when it arrived, and no NoteOff for any other (c, note).       *)
(***************************************************************************)
C1_DisconnectReleasesHeld ==
    [][ Disconnected(lastCall') =>
          LET id == InputId(lastCall'.port)
          IN  /\ \A c \in Channels, n \in Notes :
                    NoteOffCount(emitted', c, n) =
                      IF HeldBy(activeNotesByDevice, id, c, n) THEN 1 ELSE 0
              /\ \A i \in 1..Len(emitted') :
                    emitted'[i].event = "noteoff" =>
                      /\ emitted'[i].channel \in Channels
                      /\ emitted'[i].payload.note \in Notes ]_vars

\* A disconnect of in1 that released two held notes
C1_Witness ==
    /\ IsDisconnect(lastCall, "in1")
    /\ Len(emitted) = 3
    /\ emitted[1].event = "noteoff"
    /\ emitted[2].event = "noteoff"
    /\ emitted[1] # emitted[2]

(***************************************************************************)
(* C2: when two devices hold the same (channel, note), the disconnect of   *)
(* one emits exactly one NoteOff for it and leaves the other's per-device  *)
(* entry as it was; the other device's note is released by its own later  *)
(* note-off message or disconnect.                                         *)
(***************************************************************************)
C2_OtherDeviceKeepsItsNote ==
    [][ /\ Disconnected(lastCall') =>
             LET a == lastCall'.port
             IN  \A b \in Ports, c \in Channels, n \in Notes :
                    /\ (/\ a # b
                        /\ HeldBy(activeNotesByDevice, InputId(a), c, n)
                        /\ HeldBy(activeNotesByDevice, InputId(b), c, n))
                       => /\ NoteOffCount(emitted', c, n) = 1
                          /\ HeldBy(activeNotesByDevice', InputId(b), c, n)
                          /\ activeNotesByDevice'[InputId(b)] =
                                activeNotesByDevice[InputId(b)]
                    /\ (a = b /\ HeldBy(activeNotesByDevice, InputId(b), c, n))
                       => /\ NoteOffCount(emitted', c, n) = 1
                          /\ ~HeldBy(activeNotesByDevice', InputId(b), c, n)
        /\ (lastCall'.op = "message" /\ lastCall'.status \in 128..143) =>
             LET b == lastCall'.port
                 c == lastCall'.status - NOTE_OFF_BASE
                 n == lastCall'.data1
             IN  (HeldBy(activeNotesByDevice, InputId(b), c, n) /\ GatesOpen(b))
                 => /\ NoteOffCount(emitted', c, n) = 1
                    /\ ~HeldBy(activeNotesByDevice', InputId(b), c, n) ]_vars

\* in1 was disconnected and released (0, 60) while in2 still holds (0, 60)
C2_Witness ==
    /\ IsDisconnect(lastCall, "in1")
    /\ NoteOffCount(emitted, 0, 60) = 1
    /\ HeldBy(activeNotesByDevice, "in2", 0, 60)

(***************************************************************************)
(* C3: disconnect handling is idempotent: after a disconnect the device    *)
(* has no per-device entry and nothing was raised, a disconnect of a       *)
(* device with no unreleased note-on emits no NoteOff, and the second of   *)
(* two disconnect notifications in a row emits only InputDisconnected.     *)
(***************************************************************************)
C3_DisconnectIdempotent ==
    [][ Disconnected(lastCall') =>
          LET id == InputId(lastCall'.port)
          IN  /\ id \notin DOMAIN activeNotesByDevice'
              /\ ~thrown'
              /\ (\A k \in lastOnByDevice : k[1] # id) => NoNoteOff(emitted')
              /\ again' => emitted' = << InputDisconnected(lastCall'.port) >> ]_vars

\* The second of two disconnect notifications for in1 in a row
C3_Witness ==
    /\ IsDisconnect(lastCall, "in1")
    /\ again
    /\ emitted = << InputDisconnected("in1") >>

(***************************************************************************)
(* C4: while one disconnect notification for a device is handled, every    *)
(* synthetic NoteOff for its held notes is delivered to subscribers before *)
(* the InputDisconnected event; no subscriber observes InputDisconnected   *)
(* followed by a NoteOff of that same disconnect.                          *)
(***************************************************************************)
C4_NoteOffsBeforeDisconnected ==
    [][ Disconnected(lastCall') =>
          LET id == InputId(lastCall'.port)
              last == Len(emitted')
          IN  /\ last >= 1
              /\ emitted'[last] = InputDisconnected(lastCall'.port)
              /\ \A i \in 1..(last - 1) : emitted'[i].event = "noteoff"
              /\ \A c \in Channels, n \in Notes :
                    HeldBy(activeNotesByDevice, id, c, n) =>
                       \E i \in 1..(last - 1) :
                          emitted'[i] = Emission("noteoff", [note |-> n], c)
              /\ \A i, j \in 1..Len(delivered') :
                    (/\ delivered'[i].event = "inputdisconnected"
                     /\ delivered'[j].event = "noteoff") => j < i ]_vars

\* A disconnect of in1 whose NoteOff and InputDisconnected both reached a subscriber
C4_Witness ==
    /\ IsDisconnect(lastCall, "in1")
    /\ \E i, j \in 1..Len(delivered) :
          /\ i < j
          /\ delivered[i].event = "noteoff"
          /\ delivered[j].event = "inputdisconnected"

\* The (channel, event) keys under which the registry holds the handler
RegisteredAt(h) ==
    { k \in DispatchChannels \X DispatchEvents :
        /\ ~eventHandlersByChannel.null
        /\ k[1] \in DOMAIN eventHandlersByChannel.map
        /\ k[2] \in DOMAIN eventHandlersByChannel.map[k[1]]
        /\ h \in Range(eventHandlersByChannel.map[k[1]][k[2]]) }

\* How often the last call invoked the handler
Invocations(h) ==
    Cardinality({ i \in 1..Len(delivered) : delivered[i].handler = h })

(***************************************************************************)
(* C5: for an emission of kind K on a concrete channel C caused by a raw   *)
(* message, a handler registered only under a concrete channel C' for K is *)
(* invoked iff C' = C, a handler registered only on the wildcard for K is  *)
(* invoked exactly once whatever C is, and a handler registered for other  *)
(* kinds only is not invoked.                                              *)
(***************************************************************************)
C5_ChannelScopedDispatch ==
    (lastCall.op = "message" /\ emitted # <<>>) =>
        LET e == emitted[1]
        IN  /\ Len(emitted) = 1
            /\ e.channel \in 0..15
            /\ \A h \in Handlers :
                  /\ \A c \in Channels :
                        RegisteredAt(h) = { <<c, e.event>> } =>
                           /\ (Invocations(h) > 0) <=> (c = e.channel)
                           /\ Invocations(h) <= 1
                  /\ RegisteredAt(h) = { <<WILDCARD, e.event>> } =>
                        Invocations(h) = 1
                  /\ (\A k \in RegisteredAt(h) : k[2] # e.event) =>
                        Invocations(h) = 0
            /\ \A i \in 1..Len(delivered) :
                  /\ delivered[i].event = e.event
                  /\ delivered[i].payload = e.payload

\* A NoteOn on channel 1 reaches the wildcard handler h2 and not h1 of channel 0
C5_Witness ==
    /\ lastCall.op = "message"
    /\ Len(emitted) = 1
    /\ emitted[1].event = "noteon"
    /\ emitted[1].channel = 1
    /\ RegisteredAt("h1") = { <<0, "noteon">> }
    /\ RegisteredAt("h2") = { <<WILDCARD, "noteon">> }
    /\ Len(delivered) = 1
    /\ delivered[1].handler = "h2"

\* The (device, channel, note) triples the per-device tracker records
HeldTriples(byDevice) ==
    { k \in Ports \X Channels \X Notes : HeldBy(byDevice, InputId(k[1]), k[2], k[3]) }

(***************************************************************************)
(* C6: in every reachable state (channel, note) is in a device's           *)
(* per-device set iff the most recent accepted note message from that      *)
(* device for it since the device's last disconnect was a note-on with     *)
(* velocity > 0; so a note released normally produces no synthetic NoteOff *)
(* when the device disconnects.                                            *)
(***************************************************************************)
C6_DeviceSetIsLastNoteOn ==
    /\ [](/\ HeldTriples(activeNotesByDevice) = lastOnByDevice
          /\ DOMAIN activeNotesByDevice = { k[1] : k \in lastOnByDevice })
    /\ [][ Disconnected(lastCall') =>
             \A c \in Channels, n \in Notes :
                << InputId(lastCall'.port), c, n >> \notin lastOnByDevice =>
                   NoteOffCount(emitted', c, n) = 0 ]_vars

\* An accepted note-off of in1 for (0, 60) while in2 goes on holding (0, 60)
C6_Witness ==
    /\ lastCall = [ op |-> "message", port |-> "in1", status |-> 128,
                    data1 |-> 60, data2 |-> 0 ]
    /\ emitted = << Emission("noteoff", [note |-> 60], 0) >>
    /\ lastOnByDevice = { << "in2", 0, 60 >> }
    /\ HeldBy(activeNotesByDevice, "in2", 0, 60)
    /\ ~HeldBy(activeNotesByDevice, "in1", 0, 60)

\* The (channel, note) pairs the global tracker records
GlobalPairs(global) ==
    { k \in Channels \X Notes : InGlobal(global, k[1], k[2]) }

(***************************************************************************)
(* C7: in every reachable state note n is in the global set of channel c   *)
(* iff the most recent note event for (c, n) was a NoteOn; a decoded       *)
(* note-off and a synthetic NoteOff of a disconnect each remove (c, n).    *)
(***************************************************************************)
C7_GlobalSetIsLastNoteOn ==
    GlobalPairs(activeNotes) = lastOnGlobal

\* The call was a raw message of the status range that passed both gates
AcceptedMessage(call, statuses) ==
    /\ call.op = "message"
    /\ call.status \in statuses
    /\ GatesOpen(call.port)

\* No NoteOn in `out` carries velocity 0
NoSilentNoteOn(out) ==
    \A i \in 1..Len(out) : out[i].event = "noteon" => out[i].payload.velocity > 0

(***************************************************************************)
(* C8: no NoteOn is ever delivered with velocity 0: a raw note-on (status  *)
(* 144..159) with data2 = 0 that passes the gates results in exactly one   *)
(* NoteOff{note = data1} on channel status - 144 and no NoteOn, and the    *)
(* trackers are left as the true note-off of that note leaves them.        *)
(***************************************************************************)
C8_SilentNoteOnIsNoteOff ==
    /\ [](NoSilentNoteOn(emitted) /\ NoSilentNoteOn(delivered))
    /\ [][ (AcceptedMessage(lastCall', 144..159) /\ lastCall'.data2 = 0) =>
             LET id == InputId(lastCall'.port)
                 c == lastCall'.status - NOTE_ON_BASE
                 n == lastCall'.data1
                 trueOff == onMessage(Tracker, enabled, inputs,
                                      NOTE_OFF_BASE + c, n, 0, id)
             IN  /\ emitted' = << Emission("noteoff", [note |-> n], c) >>
                 /\ ~InGlobal(activeNotes', c, n)
                 /\ ~HeldBy(activeNotesByDevice', id, c, n)
                 /\ activeNotes' = trueOff.t.global
                 /\ activeNotesByDevice' = trueOff.t.byDevice ]_vars

\* in1 sent a note-on of velocity 0 for (1, 61), which in2 goes on holding
C8_Witness ==
    /\ lastCall = [ op |-> "message", port |-> "in1", status |-> 145,
                    data1 |-> 61, data2 |-> 0 ]
    /\ emitted = << Emission("noteoff", [note |-> 61], 1) >>
    /\ ~InGlobal(activeNotes, 1, 61)
    /\ HeldBy(activeNotesByDevice, "in2", 1, 61)

(***************************************************************************)
(* C9: an accepted raw message with status in 144..159 and data2 > 0 emits *)
(* exactly one event, NoteOn{note = data1, velocity = data2} on channel    *)
(* status - 144, and the note is added to the global set and to the        *)
(* sending device's set of that channel.                                   *)
(***************************************************************************)
C9_NoteOnDecoded ==
    [][ (AcceptedMessage(lastCall', 144..159) /\ lastCall'.data2 > 0) =>
          LET id == InputId(lastCall'.port)
              c == lastCall'.status - 144
              n == lastCall'.data1
          IN  /\ emitted' = << [ event |-> "noteon",
                                 payload |-> [ note |-> n,
                                               velocity |-> lastCall'.data2 ],
                                 channel |-> c ] >>
              /\ InGlobal(activeNotes', c, n)
              /\ HeldBy(activeNotesByDevice', id, c, n)
              /\ GlobalPairs(activeNotes') = GlobalPairs(activeNotes) \cup { <<c, n>> }
              /\ HeldTriples(activeNotesByDevice') =
                    HeldTriples(activeNotesByDevice) \cup { << lastCall'.port, c, n >> }
        ]_vars

\* in2 sent a note-on for (1, 61) with velocity 100
C9_Witness ==
    /\ lastCall = [ op |-> "message", port |-> "in2", status |-> 145,
                    data1 |-> 61, data2 |-> 100 ]
    /\ emitted = << Emission("noteon", [note |-> 61, velocity |-> 100], 1) >>
    /\ InGlobal(activeNotes, 1, 61)
    /\ HeldBy(activeNotesByDevice, "in2", 1, 61)

(***************************************************************************)
(* C10: an accepted raw message with status in 128..143 emits exactly one  *)
(* event, NoteOff{note = data1} on channel status - 128, whatever data2    *)
(* is and also when the note was not recorded as sounding.                 *)
(***************************************************************************)
C10_NoteOffDecoded ==
    [][ AcceptedMessage(lastCall', 128..143) =>
          emitted' = << [ event |-> "noteoff",
                          payload |-> [ note |-> lastCall'.data1 ],
                          channel |-> lastCall'.status - 128 ] >> ]_vars

\* A note-off with data2 = 100 for (1, 60) when no note at all is recorded
C10_Witness ==
    /\ lastCall = [ op |-> "message", port |-> "in1", status |-> 129,
                    data1 |-> 60, data2 |-> 100 ]
    /\ emitted = << Emission("noteoff", [note |-> 60], 1) >>
    /\ activeNotes = EmptyMap
    /\ activeNotesByDevice = EmptyMap
    /\ lastOnGlobal = {}

(***************************************************************************)
(* Specification SpecDecode: one input port sending control changes, pitch *)
(* bends and status bytes outside the four supported ranges, next to the   *)
(* note-on and note-off of one note, with the global gate and a handler    *)
(* subscribed on the wildcard.                                             *)
(***************************************************************************)
DataBytes == {0, 63, 64, 127}
SupportedStatuses == (128..143) \cup (144..159) \cup (176..191) \cup (224..239)
OtherStatuses == {176, 191, 224, 239, 127, 160, 192, 208, 240, 255}
DecodeEvents == {"sustainon", "sustainoff", "pitchbend"}

MessageNote ==
    \E m \in { <<144, 100>>, <<144, 0>>, <<128, 0>> } :
        OnMessage("in1", m[1], 60, m[2])

MessageOther ==
    \E status \in OtherStatuses, data1 \in DataBytes, data2 \in DataBytes :
        OnMessage("in1", status, data1, data2)

SubscribeDecode ==
    \E event \in DecodeEvents : On(event, "h1", WILDCARD)

NextDecode ==
    \/ Request
    \/ GrantOne
    \/ MessageNote
    \/ MessageOther
    \/ SubscribeDecode
    \/ Gate

SpecDecode == Init /\ [][NextDecode]_vars

(***************************************************************************)
(* C11: an accepted control change (status 176..191) of controller 64      *)
(* emits exactly one event on channel status - 176: SustainOn{value =      *)
(* data2} when data2 >= 64 and SustainOff{value = data2} when data2 < 64,  *)
(* never both, and the trackers do not change.                             *)
(***************************************************************************)
C11_SustainDecoded ==
    [][ (AcceptedMessage(lastCall', 176..191) /\ lastCall'.data1 = 64) =>
          LET v == lastCall'.data2
              c == lastCall'.status - 176
          IN  /\ Len(emitted') = 1
              /\ emitted'[1].channel = c
              /\ emitted'[1].payload = [ value |-> v ]
              /\ v >= 64 => emitted'[1].event = "sustainon"
              /\ v < 64 => emitted'[1].event = "sustainoff"
              /\ activeNotes' = activeNotes
              /\ activeNotesByDevice' = activeNotesByDevice ]_vars

\* Controller 64 with value 64 on channel 15 while note 60 is held: SustainOn
C11_Witness ==
    /\ lastCall = [ op |-> "message", port |-> "in1", status |-> 191,
                    data1 |-> 64, data2 |-> 64 ]
    /\ emitted = << Emission("sustainon", [value |-> 64], 15) >>
    /\ Len(delivered) = 1
    /\ HeldBy(activeNotesByDevice, "in1", 0, 60)
    /\ InGlobal(activeNotes, 0, 60)

(***************************************************************************)
(* C13: a raw message whose status byte is outside 128..143, 144..159,     *)
(* 176..191 and 224..239, or a control change of a controller other than   *)
(* 64, emits no event, raises nothing and leaves the registry, both        *)
(* trackers, the device records and both gates unchanged.                  *)
(***************************************************************************)
C13_UnsupportedDropped ==
    [][ (/\ lastCall'.op = "message"
         /\ \/ lastCall'.status \notin SupportedStatuses
            \/ lastCall'.status \in 176..191 /\ lastCall'.data1 # 64) =>
          /\ emitted' = <<>>
          /\ delivered' = <<>>
          /\ ~thrown'
          /\ UNCHANGED << eventHandlersByChannel, activeNotes,
                          activeNotesByDevice, inputs, enabled >> ]_vars

\* Controller 63 arrives while the gate is open, a handler is subscribed to
\* SustainOn and note 60 is held: nothing is emitted
C13_Witness ==
    /\ lastCall = [ op |-> "message", port |-> "in1", status |-> 176,
                    data1 |-> 63, data2 |-> 127 ]
    /\ GatesOpen("in1")
    /\ emitted = <<>>
    /\ getEventHandlers(eventHandlersByChannel, "sustainon", WILDCARD) = << "h1" >>
    /\ HeldBy(activeNotesByDevice, "in1", 0, 60)

(***************************************************************************)
(* Specification SpecPitchBend: the pitch bend decoder over every pair of  *)
(* data bytes.  It starts after access was granted with one input port,    *)
(* with one pitch bend message of the port about to be delivered.          *)
(***************************************************************************)
PitchBendStatuses == {224, 239}
DataByteRange == 0..127

InitPitchBend ==
    /\ eventHandlersByChannel = [ null |-> FALSE, map |-> EmptyMap ]
    /\ accessStatus = "accepted"
    /\ midiAccess = TRUE
    /\ enabled = TRUE
    /\ activeNotes = EmptyMap
    /\ activeNotesByDevice = EmptyMap
    /\ inputs = << MIDIInput("in1", "connected") >>
    /\ pending = 0
    /\ boundPorts = {"in1"}
    /\ stateChangeBound = TRUE
    /\ emitted = <<>>
    /\ delivered = <<>>
    /\ thrown = FALSE
    /\ seen = <<>>
    /\ lastOnByDevice = {}
    /\ lastOnGlobal = {}
    /\ \E status \in PitchBendStatuses, lsb \in DataByteRange, msb \in DataByteRange :
          lastCall = [ op |-> "arriving", port |-> "in1", status |-> status,
                       data1 |-> lsb, data2 |-> msb ]
    /\ hostRequests = 1
    /\ again = FALSE
    /\ unsubscribed = 0

\* The host delivers the message
Deliver ==
    /\ lastCall.op = "arriving"
    /\ OnMessage(lastCall.port, lastCall.status, lastCall.data1, lastCall.data2)

NextPitchBend == Deliver

SpecPitchBend == InitPitchBend /\ [][NextPitchBend]_vars

(***************************************************************************)
(* C12: an accepted pitch bend (status 224..239) with data1 = LSB and      *)
(* data2 = MSB in 0..127 emits exactly one PitchBend on channel            *)
(* status - 224 whose value is (raw - 8192) / 8192 with raw = MSB * 128 +  *)
(* LSB in 0..16383; raw - 8192 lies in -8192..8191, raw 0 gives -1, raw    *)
(* 8192 gives 0 and raw 16383 gives 8191/8192.                             *)
(***************************************************************************)
C12_PitchBendValue ==
    AcceptedMessage(lastCall, 224..239) =>
        LET raw == lastCall.data2 * 128 + lastCall.data1
        IN  /\ raw \in 0..16383
            /\ Len(emitted) = 1
            /\ emitted[1].event = "pitchbend"
            /\ emitted[1].channel = lastCall.status - 224
            /\ emitted[1].payload.value = [ num |-> raw - 8192, den |-> 8192 ]
            /\ emitted[1].payload.value.num \in -8192..8191
            /\ raw = 0 => emitted[1].payload.value.num = -emitted[1].payload.value.den
            /\ raw = 8192 => emitted[1].payload.value.num = 0
            /\ raw = 16383 => emitted[1].payload.value = [ num |-> 8191, den |-> 8192 ]

\* LSB = 1 and MSB = 127 on channel 15: raw 16257, value 8065/8192
C12_Witness ==
    /\ lastCall = [ op |-> "message", port |-> "in1", status |-> 239,
                    data1 |-> 1, data2 |-> 127 ]
    /\ emitted = << Emission("pitchbend",
                             [value |-> [num |-> 8065, den |-> 8192]], 15) >>

(***************************************************************************)
(* Specification SpecGates: two input ports sending the note-on and the    *)
(* note-off of one note, connect and disconnect notifications, the global  *)
(* gate, the gate of each device, and reset.                               *)
(***************************************************************************)
MessageGated ==
    \E port \in Ports, m \in { <<144, 100>>, <<128, 0>> } :
        OnMessage(port, m[1], 60, m[2])

DeviceGate ==
    \E id \in Ports, b \in BOOLEAN : SetInputEnabled(id, b)

NextGates ==
    \/ Request
    \/ Grant
    \/ MessageGated
    \/ Gate
    \/ DeviceGate
    \/ StateChange
    \/ Reset

SpecGates == Init /\ [][NextGates]_vars

\* The step emitted nothing, invoked no handler and left both trackers alone
Ignored ==
    /\ emitted' = <<>>
    /\ delivered' = <<>>
    /\ activeNotes' = activeNotes
    /\ activeNotesByDevice' = activeNotesByDevice

\* The device of the port is known and its flag is off
DeviceDisabled(port) ==
    \E i \in 1..Len(inputs) : inputs[i].id = InputId(port) /\ ~inputs[i].enabled

(***************************************************************************)
(* C14, as the code has it: after setEnabled(false) every raw message of   *)
(* every device is ignored (no event, no tracker change) for as long as    *)
(* the global gate stays closed; the gate is opened again by               *)
(* setEnabled(true) and also by a granted requestAccess and by reset;      *)
(* messages received while it is open are processed normally.              *)
(***************************************************************************)
C14_ClosedGateIgnores ==
    [][ /\ (lastCall'.op = "message" /\ ~enabled) => Ignored
        /\ (lastCall'.op = "message" /\ GatesOpen(lastCall'.port)) =>
              Len(emitted') = 1
        /\ lastCall'.op = "setEnabled" => enabled' = lastCall'.enabled
        /\ (~enabled /\ enabled') =>
              \/ lastCall'.op = "setEnabled" /\ lastCall'.enabled
              \/ lastCall'.op \in {"granted", "reset"}
        /\ (enabled /\ ~enabled') =>
              lastCall'.op = "setEnabled" /\ ~lastCall'.enabled ]_vars

\* A note-on of in1 arrives while the global gate is closed and in2 holds the
\* note: nothing is emitted and in1 holds nothing
C14_Witness ==
    /\ lastCall = [ op |-> "message", port |-> "in1", status |-> 144,
                    data1 |-> 60, data2 |-> 100 ]
    /\ ~enabled
    /\ emitted = <<>>
    /\ ~HeldBy(activeNotesByDevice, "in1", 0, 60)
    /\ HeldBy(activeNotesByDevice, "in2", 0, 60)

(***************************************************************************)
(* C14, as stated: after setEnabled(false) every raw message of every      *)
(* device is ignored until setEnabled(true) is called, that is, a message  *)
(* that finds the gate closed is ignored and the closed gate is opened by  *)
(* nothing but a setEnabled(true) call.                                    *)
(***************************************************************************)
C14_IgnoredUntilSetEnabledTrue ==
    [][ /\ (lastCall'.op = "message" /\ ~enabled) => Ignored
        /\ (~enabled /\ enabled') =>
              lastCall'.op = "setEnabled" /\ lastCall'.enabled ]_vars

(***************************************************************************)
(* C15: while a device is disabled and the global gate is open, every raw  *)
(* message of the device is ignored (no event, no tracker change) while    *)
(* the messages of every other enabled device are decoded, tracked and     *)
(* emitted; after enable() the device's messages are processed again.      *)
(***************************************************************************)
C15_DisabledDeviceIgnored ==
    [][ /\ (lastCall'.op = "message" /\ enabled) =>
              LET id == InputId(lastCall'.port)
                  c == lastCall'.status - commandIndex(commandTable(lastCall'.status))
              IN  IF DeviceDisabled(lastCall'.port)
                  THEN Ignored
                  ELSE /\ Len(emitted') = 1
                       /\ emitted'[1].event = commandTable(lastCall'.status)
                       /\ HeldBy(activeNotesByDevice', id, c, lastCall'.data1)
                             <=> (lastCall'.status = 144)
        /\ lastCall'.op = "setInputEnabled" =>
              \A i \in 1..Len(inputs) :
                 inputs'[i].enabled = IF inputs[i].id = lastCall'.id
                                      THEN lastCall'.enabled
                                      ELSE inputs[i].enabled ]_vars

\* in1 is disabled and in2 is not: the note-on of in2 is emitted and tracked
C15_Witness ==
    /\ lastCall = [ op |-> "message", port |-> "in2", status |-> 144,
                    data1 |-> 60, data2 |-> 100 ]
    /\ enabled
    /\ DeviceDisabled("in1")
    /\ ~DeviceDisabled("in2")
    /\ emitted = << Emission("noteon", [note |-> 60, velocity |-> 100], 0) >>
    /\ HeldBy(activeNotesByDevice, "in2", 0, 60)
    /\ ~HeldBy(activeNotesByDevice, "in1", 0, 60)

\* The (channel, event) keys under which a registry holds the handler
RegisteredIn(reg, h) ==
    { k \in DispatchChannels \X DispatchEvents :
        /\ ~reg.null
        /\ k[1] \in DOMAIN reg.map
        /\ k[2] \in DOMAIN reg.map[k[1]]
        /\ h \in Range(reg.map[k[1]][k[2]]) }

\* The handler list a registry holds under (channel, event), <<>> when none
HandlersIn(reg, channel, event) ==
    IF reg.null \/ channel \notin DOMAIN reg.map THEN <<>>
    ELSE IF event \notin DOMAIN reg.map[channel] THEN <<>>
    ELSE reg.map[channel][event]

\* How often the handler occurs in a handler list
Occurrences(hs, h) == Cardinality({ i \in 1..Len(hs) : hs[i] = h })

\* Each handler was invoked by the step once per registration that matches
\* the emission, or not at all when nothing was emitted
InvokedAsRegistered ==
    \A h \in Handlers :
        Cardinality({ i \in 1..Len(delivered') : delivered'[i].handler = h }) =
            IF emitted' = <<>> THEN 0
            ELSE Occurrences(HandlersIn(eventHandlersByChannel', emitted'[1].channel,
                                        emitted'[1].event), h)
                 + Occurrences(HandlersIn(eventHandlersByChannel', WILDCARD,
                                          emitted'[1].event), h)

(***************************************************************************)
(* C16: unsubscribeToChannel(c) for a concrete channel c removes every     *)
(* handler of every event kind registered on c and leaves the handlers of  *)
(* every other concrete channel and of the wildcard registered, and these  *)
(* are still invoked by later emissions.                                   *)
(***************************************************************************)
C16_UnsubscribeChannelFrame ==
    [][ /\ (lastCall'.op = "unsubscribeToChannel" /\ lastCall'.channel \in 0..15) =>
              /\ \A e \in DispatchEvents :
                    HandlersIn(eventHandlersByChannel', lastCall'.channel, e) = <<>>
              /\ \A c \in DispatchChannels \ {lastCall'.channel}, e \in DispatchEvents :
                    HandlersIn(eventHandlersByChannel', c, e) =
                       HandlersIn(eventHandlersByChannel, c, e)
              /\ \A h \in Handlers :
                    RegisteredIn(eventHandlersByChannel', h) =
                       { k \in RegisteredIn(eventHandlersByChannel, h) :
                           k[1] # lastCall'.channel }
        /\ (lastCall'.op = "message" /\ Len(emitted') = 1) => InvokedAsRegistered
      ]_vars

\* unsubscribeToChannel(0) was called while channel 0 held a handler: it
\* left nothing on channel 0, and h2 on the wildcard as the one registration
C16_Witness ==
    /\ lastCall = [ op |-> "unsubscribeToChannel", channel |-> 0 ]
    /\ unsubscribed = 1
    /\ 0 \notin DOMAIN eventHandlersByChannel.map
    /\ RegisteredAt("h2") = { <<WILDCARD, "noteon">> }
    /\ RegisteredAt("h1") = {}

\* unsubscribeToChannel(1) was called while channel 1 held h1 for two kinds:
\* it left nothing on channel 1
C16_WitnessEveryKind ==
    /\ lastCall = [ op |-> "unsubscribeToChannel", channel |-> 1 ]
    /\ unsubscribed = 2
    /\ 1 \notin DOMAIN eventHandlersByChannel.map
    /\ RegisteredAt("h1") = {}

(***************************************************************************)
(* Specification SpecRegistry: on and off of two handlers for two event    *)
(* kinds on the wildcard and on channel 0, reset, and one input port       *)
(* sending note messages on channels 0 and 1.                              *)
(***************************************************************************)
RegistryEvents == {"noteon", "noteoff"}
RegistryChannels == {WILDCARD, 0}

\* The number of handler entries a registry holds
EntryCount(reg) == CountHandlers(reg, DispatchChannels \X DispatchEvents)

Register ==
    \E event \in RegistryEvents, handler \in Handlers, channel \in RegistryChannels :
        /\ EntryCount(on(eventHandlersByChannel, event, handler, channel))
              <= MaxRegistered
        /\ On(event, handler, channel)

Unregister ==
    \E event \in RegistryEvents, handler \in Handlers, channel \in RegistryChannels :
        Off(event, handler, channel)

MessageRegistry ==
    \E m \in { <<144, 100>>, <<145, 100>>, <<128, 0>> } :
        OnMessage("in1", m[1], 60, m[2])

NextRegistry ==
    \/ Request
    \/ GrantOne
    \/ MessageRegistry
    \/ Register
    \/ Unregister
    \/ Reset

SpecRegistry == Init /\ [][NextRegistry]_vars

(***************************************************************************)
(* C17: on(K, h, C) is idempotent: registering the same handler again for  *)
(* the same (C, K) leaves the registry as after one registration, so h is  *)
(* invoked once per matching emission and not once per registration, and a *)
(* single off(K, h, C) removes it completely.                              *)
(***************************************************************************)
C17_OnIdempotent ==
    [][ /\ lastCall'.op = "on" =>
              LET before == HandlersIn(eventHandlersByChannel, lastCall'.channel,
                                       lastCall'.event)
                  after == HandlersIn(eventHandlersByChannel', lastCall'.channel,
                                      lastCall'.event)
              IN  /\ Occurrences(after, lastCall'.handler) = 1
                  /\ lastCall'.handler \in Range(before) =>
                        /\ after = before
                        /\ ~eventHandlersByChannel.null =>
                              eventHandlersByChannel' = eventHandlersByChannel
                  /\ again' => eventHandlersByChannel' = eventHandlersByChannel
        /\ lastCall'.op = "off" =>
              Occurrences(HandlersIn(eventHandlersByChannel', lastCall'.channel,
                                     lastCall'.event), lastCall'.handler) = 0
        /\ (lastCall'.op = "message" /\ Len(emitted') = 1) =>
              /\ InvokedAsRegistered
              /\ \A h \in Handlers :
                    RegisteredIn(eventHandlersByChannel', h) =
                          { << emitted'[1].channel, emitted'[1].event >> } =>
                       Cardinality({ i \in 1..Len(delivered') :
                                       delivered'[i].handler = h }) = 1 ]_vars

\* on(noteon, h1, 0) was called twice in a row: h1 is registered once
C17_Witness ==
    /\ lastCall = [ op |-> "on", event |-> "noteon", handler |-> "h1",
                    channel |-> 0 ]
    /\ again
    /\ HandlersIn(eventHandlersByChannel, 0, "noteon") = << "h1" >>

(***************************************************************************)
(* C18: off(K, h, C) removes h from the handler set of (C, K), so that no  *)
(* later emission invokes h through it, leaves every other registration    *)
(* (other handlers, kinds and channels, and h under other keys) as it was, *)
(* and is a no-op that raises nothing when h is not registered under       *)
(* (C, K), also when the registry is empty or was reset.                   *)
(***************************************************************************)
C18_OffFrame ==
    [][ /\ lastCall'.op = "off" =>
              LET h == lastCall'.handler
                  key == << lastCall'.channel, lastCall'.event >>
              IN  /\ key \notin RegisteredIn(eventHandlersByChannel', h)
                  /\ RegisteredIn(eventHandlersByChannel', h) =
                        RegisteredIn(eventHandlersByChannel, h) \ {key}
                  /\ \A g \in Handlers \ {h} :
                        RegisteredIn(eventHandlersByChannel', g) =
                           RegisteredIn(eventHandlersByChannel, g)
                  /\ \A k \in DispatchChannels \X DispatchEvents :
                        HandlersIn(eventHandlersByChannel', k[1], k[2]) =
                           IF k = key
                           THEN SelectSeq(HandlersIn(eventHandlersByChannel, k[1], k[2]),
                                          LAMBDA g : g # h)
                           ELSE HandlersIn(eventHandlersByChannel, k[1], k[2])
                  /\ key \notin RegisteredIn(eventHandlersByChannel, h) =>
                        eventHandlersByChannel' = eventHandlersByChannel
                  /\ ~thrown'
        /\ (lastCall'.op = "message" /\ Len(emitted') = 1) => InvokedAsRegistered
      ]_vars

\* off(noteon, h1, 0) left h2 under the same key and h1 on the wildcard
C18_Witness ==
    /\ lastCall = [ op |-> "off", event |-> "noteon", handler |-> "h1",
                    channel |-> 0 ]
    /\ ~again
    /\ HandlersIn(eventHandlersByChannel, 0, "noteon") = << "h2" >>
    /\ RegisteredAt("h1") = {}

\* The wire format: the events a supported raw message stands for
Decoded(status, data1, data2) ==
    IF status \in 128..143
    THEN << [ event |-> "noteoff", payload |-> [note |-> data1],
              channel |-> status - 128 ] >>
    ELSE IF status \in 144..159 /\ data2 = 0
    THEN << [ event |-> "noteoff", payload |-> [note |-> data1],
              channel |-> status - 144 ] >>
    ELSE IF status \in 144..159
    THEN << [ event |-> "noteon", payload |-> [note |-> data1, velocity |-> data2],
              channel |-> status - 144 ] >>
    ELSE IF status \in 176..191 /\ data1 = 64
    THEN << [ event |-> IF data2 >= 64 THEN "sustainon" ELSE "sustainoff",
              payload |-> [value |-> data2], channel |-> status - 176 ] >>
    ELSE IF status \in 224..239
    THEN << [ event |-> "pitchbend",
              payload |-> [value |-> [num |-> data2 * 128 + data1 - 8192,
                                      den |-> 8192]],
              channel |-> status - 224 ] >>
    ELSE <<>>

\* The events the step delivered to the handler, in order
DeliveredTo(h) ==
    LET sel == SelectSeq(delivered', LAMBDA d : d.handler = h)
    IN  [ i \in 1..Len(sel) |->
            [ event |-> sel[i].event, payload |-> sel[i].payload,
              channel |-> sel[i].channel ] ]

(***************************************************************************)
(* Specification SpecOrder: two input ports sending the note-on and the    *)
(* note-off of one note, connect and disconnect notifications, the gate of *)
(* each device, and a handler subscribed on the wildcard for NoteOn and    *)
(* for NoteOff.                                                            *)
(***************************************************************************)
OrderEvents == {"noteon", "noteoff"}

SubscribeOrder ==
    \E event \in OrderEvents : On(event, "h1", WILDCARD)

NextOrder ==
    \/ Request
    \/ Grant
    \/ MessageGated
    \/ DeviceGate
    \/ StateChange
    \/ SubscribeOrder

SpecOrder == Init /\ [][NextOrder]_vars

\* The events of `out` that the wildcard registrations of the handler match
ForWildcardSubscriber(out, h) ==
    SelectSeq(out, LAMBDA e : h \in Range(HandlersIn(eventHandlersByChannel',
                                                     WILDCARD, e.event)))

(***************************************************************************)
(* C19, as stated: the events delivered to a wildcard subscriber are       *)
(* exactly the decoded accepted, supported raw messages of a device in     *)
(* arrival order, so that each message step delivers the decoding of its   *)
(* message and no other step delivers anything.                            *)
(***************************************************************************)
C19_DeliveredInArrivalOrder ==
    [][ IF lastCall'.op = "message"
        THEN LET expected == IF GatesOpen(lastCall'.port)
                             THEN Decoded(lastCall'.status, lastCall'.data1,
                                          lastCall'.data2)
                             ELSE <<>>
             IN  /\ emitted' = expected
                 /\ \A h \in Handlers :
                       DeliveredTo(h) =
                          SelectSeq(expected,
                                    LAMBDA e : h \in Range(HandlersIn(
                                       eventHandlersByChannel', WILDCARD, e.event)))
        ELSE delivered' = <<>> ]_vars

(***************************************************************************)
(* C19, as the code has it: each accepted, supported raw message of a      *)
(* device delivers its decoding to the wildcard subscribers within its own *)
(* callback, once and in the order of arrival, and a dropped or            *)
(* unsupported message delivers nothing.  The only other deliveries are    *)
(* those of a connect or disconnect notification of an input port, which   *)
(* decode no raw message: InputConnected, or one NoteOff for each note the *)
(* per-device set of the disconnected device holds, followed by            *)
(* InputDisconnected.                                                      *)
(***************************************************************************)
C19_MessagesDeliveredInArrivalOrder ==
    [][ IF lastCall'.op = "message"
        THEN LET expected == IF GatesOpen(lastCall'.port)
                             THEN Decoded(lastCall'.status, lastCall'.data1,
                                          lastCall'.data2)
                             ELSE <<>>
             IN  /\ emitted' = expected
                 /\ \A h \in Handlers :
                       DeliveredTo(h) = ForWildcardSubscriber(expected, h)
        ELSE IF lastCall'.op = "statechange" /\ lastCall'.type = "input"
        THEN LET id == InputId(lastCall'.port)
                 held == IF id \in DOMAIN activeNotesByDevice
                         THEN activeNotesByDevice[id] ELSE <<>>
                 last == emitted'[Len(emitted')]
             IN  /\ \A h \in Handlers :
                       DeliveredTo(h) = ForWildcardSubscriber(emitted', h)
                 /\ Len(emitted') = 1 + IF lastCall'.state = "disconnected"
                                        THEN HeldOnChannels(held) ELSE 0
                 /\ last.event = IF lastCall'.state = "disconnected"
                                 THEN "inputdisconnected" ELSE "inputconnected"
                 /\ last.payload.input = id
                 /\ \A i \in 1..(Len(emitted') - 1) :
                       /\ emitted'[i].event = "noteoff"
                       /\ HeldBy(activeNotesByDevice, id, emitted'[i].channel,
                                 emitted'[i].payload.note)
        ELSE delivered' = <<>> ]_vars

\* The note-off of in2 reached the wildcard subscriber h1 within its
\* callback while in1 still holds the same note
C19_Witness ==
    /\ lastCall = [ op |-> "message", port |-> "in2", status |-> 128,
                    data1 |-> 60, data2 |-> 0 ]
    /\ delivered = << [ handler |-> "h1", event |-> "noteoff",
                        payload |-> [note |-> 60], channel |-> 0 ] >>
    /\ HeldBy(activeNotesByDevice, "in1", 0, 60)
    /\ ~HeldBy(activeNotesByDevice, "in2", 0, 60)
    /\ HandlersIn(eventHandlersByChannel, WILDCARD, "noteon") = << "h1" >>

\* The state the handle of a known device reports
ReportedState(ins, id) ==
    ins[CHOOSE i \in 1..Len(ins) : ins[i].id = id].state

(***************************************************************************)
(* C20: after a disconnect notification for an already known device its   *)
(* handle, the same object getInputs returned before, reports state        *)
(* disconnected, and after a later connect notification it reports state   *)
(* connected.                                                              *)
(***************************************************************************)
C20_HandleReportsState ==
    [][ (/\ lastCall'.op = "statechange"
         /\ lastCall'.type = "input"
         /\ InputId(lastCall'.port) \in KnownIds(inputs)) =>
          ReportedState(inputs', InputId(lastCall'.port)) = lastCall'.state ]_vars

(***************************************************************************)
(* Specification SpecAccess: requestAccess called while earlier calls are  *)
(* still suspended, the host granting or refusing each request, reset,     *)
(* the global gate, and one input port enumerated at the grant that sends  *)
(* note messages and is connected and disconnected.                        *)
(***************************************************************************)
MaxConcurrent == 2  \* requestAccess calls suspended at once (access specification)

RequestConcurrent == RequestAccessUpTo(MaxConcurrent)

Deny == HostDeny

NextAccess ==
    \/ RequestConcurrent
    \/ GrantOne
    \/ Deny
    \/ Reset
    \/ Gate
    \/ MessageOne
    \/ StateChangeOne

SpecAccess == Init /\ [][NextAccess]_vars

(***************************************************************************)
(* C21: once the access status is accepted or denied, a further            *)
(* requestAccess call is a no-op: the host is not contacted (no request is *)
(* added to the unanswered ones), the status, the MIDIAccess object, the   *)
(* bound callbacks, the device records and the gate stay as they are, and  *)
(* nothing is raised.                                                      *)
(***************************************************************************)
C21_SettledRequestIsNoOp ==
    [][ (lastCall'.op = "requestAccess" /\ accessStatus # "unrequested")
        => /\ pending' = pending
           /\ hostRequests' = hostRequests
           /\ accessStatus' = accessStatus
           /\ midiAccess' = midiAccess
           /\ boundPorts' = boundPorts
           /\ stateChangeBound' = stateChangeBound
           /\ inputs' = inputs
           /\ enabled' = enabled
           /\ ~thrown' ]_vars

\* requestAccess was called after the grant had bound the callbacks
C21_Witness ==
    /\ lastCall.op = "requestAccess"
    /\ accessStatus = "accepted"
    /\ stateChangeBound
    /\ boundPorts = {"in1"}
    /\ pending = 0
    /\ hostRequests = 1

(***************************************************************************)
(* C22: between resets the host is asked for access at most once, however  *)
(* many times requestAccess is called, also while an earlier call is still *)
(* suspended at its await.                                                 *)
(***************************************************************************)
C22_HostRequestedAtMostOnce == hostRequests <= 1

(***************************************************************************)
(* C23: when the host refuses, requestAccess fails with the access-denied  *)
(* error and the status becomes denied; the refusal creates no device      *)
(* record and binds neither a message callback nor the connectivity        *)
(* callback; a requestAccess call made while the status is denied returns  *)
(* without an error and leaves the status denied.                          *)
(***************************************************************************)
C23_DenialSettles ==
    [][ /\ lastCall'.op = "denied"
           => /\ thrown'
              /\ accessStatus' = "denied"
              /\ inputs' = inputs
              /\ boundPorts' = boundPorts
              /\ stateChangeBound' = stateChangeBound
              /\ midiAccess' = midiAccess
        /\ (lastCall'.op = "requestAccess" /\ accessStatus = "denied")
           => /\ ~thrown'
              /\ accessStatus' = "denied"
              /\ hostRequests' = hostRequests ]_vars

\* requestAccess was refused, and was called again afterwards
C23_Witness ==
    /\ lastCall.op = "requestAccess"
    /\ accessStatus = "denied"
    /\ ~thrown
    /\ hostRequests = 1
    /\ pending = 0
    /\ inputs = <<>>
    /\ boundPorts = {}
    /\ ~stateChangeBound

(***************************************************************************)
(* Specification SpecLifecycle: one input port enumerated at the grant and *)
(* a second one that is only plugged in later, connectivity notifications  *)
(* for input and for output ports, the gate of each device, the note-on    *)
(* and the note-off of one note from either port, and reset.               *)
(***************************************************************************)
PortTypes == {"input", "output"}

Connectivity ==
    \E port \in Ports, type \in PortTypes, state \in PortStates :
        OnStateChange(port, type, state)

NextLifecycle ==
    \/ Request
    \/ GrantOne
    \/ Connectivity
    \/ DeviceGate
    \/ MessageGated
    \/ Reset

SpecLifecycle == Init /\ [][NextLifecycle]_vars

(***************************************************************************)
(* C24: absent reset, a device record is created the first time its id is  *)
(* observed (enumerated at the grant, or named by a connect or by a        *)
(* disconnect notification of an input port) and is never removed or       *)
(* replaced afterwards: the ids of getInputs() never shrink, and the       *)
(* handle of an id stays the one that was created (it keeps its place, the *)
(* descriptor it was built with, and its flag unless enable() or disable() *)
(* is called on it) across connect and disconnect notifications.           *)
(***************************************************************************)
C24_RecordsCreatedOnceAndKept ==
    [][ lastCall'.op # "reset"
        => /\ Len(inputs') >= Len(inputs)
           /\ \A i \in 1..Len(inputs) :
                 /\ inputs'[i].id = inputs[i].id
                 /\ inputs'[i].state = inputs[i].state
                 /\ lastCall'.op # "setInputEnabled" => inputs'[i] = inputs[i]
           /\ Cardinality(KnownIds(inputs')) = Len(inputs')
           /\ lastCall'.op = "granted"
              => \A i \in 1..Len(lastCall'.inputs) :
                    InputId(lastCall'.inputs[i].id) \in KnownIds(inputs')
           /\ (lastCall'.op = "statechange" /\ lastCall'.type = "input")
              => InputId(lastCall'.port) \in KnownIds(inputs')
           /\ Len(inputs') > Len(inputs)
              => \/ lastCall'.op = "granted"
                 \/ lastCall'.op = "statechange" /\ lastCall'.type = "input"
      ]_vars

\* The enumerated device was disabled and then disconnected, after a
\* disconnect notification had named a device not seen before
C24_Witness ==
    /\ lastCall.op = "statechange"
    /\ lastCall.port = "in1"
    /\ lastCall.type = "input"
    /\ lastCall.state = "disconnected"
    /\ inputs = << [ id |-> "in1", state |-> "connected", enabled |-> FALSE ],
                   [ id |-> "in2", state |-> "disconnected", enabled |-> TRUE ] >>

(***************************************************************************)
(* Specification SpecReset: reset after access was granted, the gate was   *)
(* closed, a handler was registered for note kinds on the wildcard or on   *)
(* channel 0, and the one input port had a note sounding.                  *)
(***************************************************************************)
SubscribeReset ==
    \E event \in RegistryEvents, channel \in RegistryChannels :
        On(event, "h1", channel)

NextReset ==
    \/ Request
    \/ GrantOne
    \/ MessageGated
    \/ SubscribeReset
    \/ Gate
    \/ Reset

SpecReset == Init /\ [][NextReset]_vars

\* The registry holds no handler under any channel and kind
NothingRegistered(reg) ==
    \A h \in Handlers : RegisteredIn(reg, h) = {}

(***************************************************************************)
(* C25: after reset() the access status is unrequested, the global gate is *)
(* enabled, no handler is registered on any channel, both note trackers    *)
(* are empty and getInputs() is empty; a handler registered before the     *)
(* reset is not invoked afterwards unless it is registered again (a step   *)
(* invokes registered handlers only, and only on() registers one).         *)
(***************************************************************************)
C25_ResetRestoresInitialState ==
    [][ /\ lastCall'.op = "reset"
           => /\ accessStatus' = "unrequested"
              /\ enabled'
              /\ NothingRegistered(eventHandlersByChannel')
              /\ activeNotes' = EmptyMap
              /\ activeNotesByDevice' = EmptyMap
              /\ inputs' = <<>>
              /\ delivered' = <<>>
        /\ \A i \in 1..Len(delivered') :
              RegisteredIn(eventHandlersByChannel', delivered'[i].handler) # {}
        /\ \A h \in Handlers :
              (/\ RegisteredIn(eventHandlersByChannel', h) # {}
               /\ RegisteredIn(eventHandlersByChannel, h) = {})
              => (lastCall'.op = "on" /\ lastCall'.handler = h)
      ]_vars

\* After a reset the port, whose callback is still bound, sent a note-on
\* and the handler registered before the reset was not invoked
C25_Witness ==
    /\ lastCall.op = "message"
    /\ lastCall.status = 144
    /\ lastCall.data2 = 100
    /\ accessStatus = "unrequested"
    /\ hostRequests = 0
    /\ emitted # <<>>
    /\ delivered = <<>>
    /\ NothingRegistered(eventHandlersByChannel)
    /\ inputs = <<>>

(***************************************************************************)
(* C26: a connect notification for an input port creates the record of the *)
(* id when it is unknown (enabled by default) and keeps the records        *)
(* otherwise, emits exactly one InputConnected that carries that device,   *)
(* and binds the port's message stream, so that a later note-on of the     *)
(* port that passes the gates is emitted and recorded under that device    *)
(* id.  A connectivity notification for a port that is not an input        *)
(* changes no state, binds nothing and emits nothing.                      *)
(***************************************************************************)
C26_ConnectCreatesAnnouncesBinds ==
    [][ /\ lastCall'.op = "statechange"
           => IF lastCall'.type # "input"
              THEN /\ Ignored
                   /\ inputs' = inputs
                   /\ boundPorts' = boundPorts
                   /\ stateChangeBound' = stateChangeBound
                   /\ enabled' = enabled
                   /\ accessStatus' = accessStatus
                   /\ eventHandlersByChannel' = eventHandlersByChannel
              ELSE lastCall'.state = "connected"
                   => LET id == InputId(lastCall'.port)
                      IN  /\ inputs' = IF id \in KnownIds(inputs) THEN inputs
                                       ELSE Append(inputs,
                                                [ id |-> id, state |-> "connected",
                                                  enabled |-> TRUE ])
                          /\ emitted' = << [ event |-> "inputconnected",
                                             payload |-> [ input |-> id ],
                                             channel |-> WILDCARD ] >>
                          /\ boundPorts' = boundPorts \cup { lastCall'.port }
                          /\ activeNotes' = activeNotes
                          /\ activeNotesByDevice' = activeNotesByDevice
        /\ (/\ lastCall'.op = "message"
            /\ lastCall'.status = NOTE_ON_BASE
            /\ lastCall'.data2 > 0
            /\ enabled
            /\ ~DeviceDisabled(lastCall'.port))
           => /\ lastCall'.port \in boundPorts
              /\ emitted' # <<>>
              /\ HeldBy(activeNotesByDevice', InputId(lastCall'.port), 0,
                        lastCall'.data1)
      ]_vars

\* The port that was not enumerated at the grant was plugged in, and its
\* note-on was recorded under its id
C26_Witness ==
    /\ lastCall.op = "message"
    /\ lastCall.port = "in2"
    /\ lastCall.status = NOTE_ON_BASE
    /\ accessStatus = "accepted"
    /\ [ id |-> "in2", state |-> "connected", enabled |-> TRUE ] \in Range(inputs)
    /\ HeldBy(activeNotesByDevice, "in2", 0, 60)
    /\ emitted # <<>>

(***************************************************************************)
(* Specification SpecConnectivity: handlers subscribed for InputConnected  *)
(* and InputDisconnected on the wildcard and on channel 0, and one input   *)
(* port that is connected and disconnected, also while its note sounds.    *)
(***************************************************************************)
ConnectivityEvents == {"inputconnected", "inputdisconnected"}
ConnectivityChannels == {WILDCARD, 0}

SubscribeConnectivity ==
    \E event \in ConnectivityEvents, handler \in Handlers,
       channel \in ConnectivityChannels :
        /\ CountHandlers(on(eventHandlersByChannel, event, handler, channel),
                         ConnectivityChannels \X ConnectivityEvents)
              <= MaxRegistered
        /\ On(event, handler, channel)

NextConnectivity ==
    \/ Request
    \/ GrantOne
    \/ MessageOne
    \/ StateChangeOne
    \/ SubscribeConnectivity

SpecConnectivity == Init /\ [][NextConnectivity]_vars

\* The kind of event a connectivity notification announces
ConnectivityKind(state) ==
    IF state = "connected" THEN "inputconnected" ELSE "inputdisconnected"

\* The positions of delivered' at which handler h was invoked for the kind
InvokedFor(h, kind) ==
    { i \in 1..Len(delivered') :
        delivered'[i].handler = h /\ delivered'[i].event = kind }

(***************************************************************************)
(* C27: InputConnected and InputDisconnected are emitted with wildcard     *)
(* scope: a notification invokes every handler registered for its kind on  *)
(* the wildcard channel exactly once and no handler registered for the     *)
(* kind on a concrete channel only; no other step invokes a handler for    *)
(* these kinds.                                                            *)
(***************************************************************************)
C27_ConnectivityIsWildcardScoped ==
    [][ IF lastCall'.op = "statechange" /\ lastCall'.type = "input"
        THEN LET kind == ConnectivityKind(lastCall'.state)
             IN  /\ \A i \in 1..Len(emitted') :
                       emitted'[i].event \in ConnectivityEvents
                       => (emitted'[i].event = kind /\ emitted'[i].channel = WILDCARD)
                 /\ Cardinality({ i \in 1..Len(emitted') :
                                    emitted'[i].event = kind }) = 1
                 /\ \A h \in Handlers :
                       /\ Cardinality(InvokedFor(h, kind)) =
                             IF h \in Range(HandlersIn(eventHandlersByChannel,
                                                       WILDCARD, kind))
                             THEN 1 ELSE 0
                       /\ \A other \in ConnectivityEvents \ {kind} :
                             InvokedFor(h, other) = {}
        ELSE \A i \in 1..Len(delivered') :
                delivered'[i].event \notin ConnectivityEvents
      ]_vars

\* A connect notification invoked the handler registered for InputConnected
\* on the wildcard and not the one registered for it on channel 0
C27_Witness ==
    /\ lastCall.op = "statechange"
    /\ lastCall.state = "connected"
    /\ HandlersIn(eventHandlersByChannel, WILDCARD, "inputconnected") = << "h1" >>
    /\ HandlersIn(eventHandlersByChannel, 0, "inputconnected") = << "h2" >>
    /\ Len(delivered) = 1
    /\ delivered[1].handler = "h1"
    /\ delivered[1].event = "inputconnected"

(***************************************************************************)
(* C28: in every reachable state neither tracker holds an empty container: *)
(* every channel key of the global map has a non-empty note set, every     *)
(* device key of the per-device map has a non-empty channel map, and every *)
(* channel key of a device has a non-empty note set.                       *)
(***************************************************************************)
C28_NoEmptyContainer ==
    /\ \A c \in DOMAIN activeNotes : activeNotes[c] # {}
    /\ \A d \in DOMAIN activeNotesByDevice :
          /\ activeNotesByDevice[d] # <<>>
          /\ \A i \in 1..Len(activeNotesByDevice[d]) :
                activeNotesByDevice[d][i].notes # <<>>

\* A note-off of in1 on channel 0 was accepted and left in1 with the note it
\* holds on channel 1 only, while in2 holds a note
C28_Witness ==
    /\ lastCall.op = "message"
    /\ lastCall.port = "in1"
    /\ lastCall.status = NOTE_OFF_BASE
    /\ emitted # <<>>
    /\ "in1" \in DOMAIN activeNotesByDevice
    /\ ~HasChannel(activeNotesByDevice["in1"], 0)
    /\ HasChannel(activeNotesByDevice["in1"], 1)
    /\ "in2" \in DOMAIN activeNotesByDevice
    /\ 0 \notin DOMAIN activeNotes

(***************************************************************************)
(* C29: the global gate and the gates of the devices are independent:      *)
(* setEnabled(b) changes the global flag only, enable() and disable() of a *)
(* device change the flag of that device only, and a raw message of a      *)
(* device is processed if and only if the global flag is on and the device *)
(* is not a known device whose flag is off.  (Every message of SpecGates   *)
(* decodes to one event, so processed means that an event was emitted.)    *)
(***************************************************************************)
C29_GatesIndependent ==
    [][ /\ lastCall'.op = "setEnabled"
           => /\ enabled' = lastCall'.enabled
              /\ inputs' = inputs
        /\ lastCall'.op = "setInputEnabled"
           => /\ enabled' = enabled
              /\ Len(inputs') = Len(inputs)
              /\ \A i \in 1..Len(inputs) :
                    inputs'[i] = IF inputs[i].id = lastCall'.id
                                 THEN [ inputs[i] EXCEPT !.enabled = lastCall'.enabled ]
                                 ELSE inputs[i]
        /\ lastCall'.op = "message"
           => /\ enabled' = enabled
              /\ inputs' = inputs
              /\ IF enabled /\ ~DeviceDisabled(lastCall'.port)
                 THEN Len(emitted') = 1
                 ELSE Ignored
      ]_vars

\* setEnabled(true) was called while in1 was disabled: in1 stays disabled
C29_Witness ==
    /\ lastCall.op = "setEnabled"
    /\ lastCall.enabled
    /\ enabled
    /\ DeviceDisabled("in1")
    /\ ~DeviceDisabled("in2")
    /\ KnownIds(inputs) = {"in1", "in2"}

(***************************************************************************)
(* Specification SpecChannels: one input port sending messages whose       *)
(* status bytes are the first and the last of each supported range and     *)
(* bytes next to the ranges, with the gate and connectivity notifications. *)
(***************************************************************************)
EdgeStatuses ==
    {128, 143, 144, 159, 176, 191, 224, 239} \cup {127, 160, 175, 192, 223, 240}
EdgeData == {0, 64}

MessageEdge ==
    \E status \in EdgeStatuses, data1 \in EdgeData, data2 \in EdgeData :
        OnMessage("in1", status, data1, data2)

NextChannels ==
    \/ Request
    \/ GrantOne
    \/ MessageEdge
    \/ StateChangeOne
    \/ Gate

SpecChannels == Init /\ [][NextChannels]_vars

\* The first status byte of the range the status byte lies in
RangeBase(status) ==
    IF status \in 128..143 THEN 128
    ELSE IF status \in 144..159 THEN 144
    ELSE IF status \in 176..191 THEN 176
    ELSE 224

(***************************************************************************)
(* C30: every event decoded from a raw message is emitted on the concrete  *)
(* channel in 0..15 that is the status byte minus the first status byte of *)
(* the range the status resolves to (128 NoteOff, 144 NoteOn, 176          *)
(* ControlChange, 224 PitchBend), never on the wildcard; and every channel *)
(* key of either tracker is in 0..15.                                      *)
(***************************************************************************)
C30_ChannelIsStatusMinusBase ==
    [][ /\ lastCall'.op = "message"
           => \A i \in 1..Len(emitted') :
                 /\ lastCall'.status \in SupportedStatuses
                 /\ emitted'[i].channel = lastCall'.status - RangeBase(lastCall'.status)
                 /\ emitted'[i].channel \in 0..15
                 /\ emitted'[i].channel # WILDCARD
        /\ DOMAIN activeNotes' \subseteq 0..15
        /\ \A d \in DOMAIN activeNotesByDevice' :
              \A i \in 1..Len(activeNotesByDevice'[d]) :
                 activeNotesByDevice'[d][i].channel \in 0..15
      ]_vars

\* A note-on with status 159 was emitted on channel 15 and is recorded under
\* channel 15 in both trackers
C30_Witness ==
    /\ lastCall.op = "message"
    /\ lastCall.status = 159
    /\ Len(emitted) = 1
    /\ emitted[1].event = "noteon"
    /\ emitted[1].channel = 15
    /\ 15 \in DOMAIN activeNotes
    /\ HeldBy(activeNotesByDevice, "in1", 15, lastCall.data1)

(***************************************************************************)
(* C31: tracker updates precede emission.  When the handlers of the NoteOn *)
(* of a raw note-on run, the note is in the global set and in the device's *)
(* set; when the handlers of the NoteOff of a raw note-off run, the note   *)
(* is in neither; while a disconnect emits its synthetic NoteOffs the      *)
(* device's entry is still as the disconnect found it, and it is gone when *)
(* InputDisconnected is emitted.                                           *)
(***************************************************************************)
C31_TrackedBeforeEmitted ==
    [][ /\ Len(seen') = Len(emitted')
        /\ lastCall'.op = "message"
           => \A i \in 1..Len(emitted') :
                 LET e == emitted'[i]
                     id == InputId(lastCall'.port)
                 IN  /\ e.event = "noteon"
                        => /\ InGlobal(seen'[i].global, e.channel, e.payload.note)
                           /\ HeldBy(seen'[i].byDevice, id, e.channel, e.payload.note)
                     /\ e.event = "noteoff"
                        => /\ ~InGlobal(seen'[i].global, e.channel, e.payload.note)
                           /\ ~HeldBy(seen'[i].byDevice, id, e.channel, e.payload.note)
        /\ Disconnected(lastCall')
           => \A i \in 1..Len(emitted') :
                 IF emitted'[i].event = "noteoff"
                 THEN seen'[i].byDevice = activeNotesByDevice
                 ELSE InputId(lastCall'.port) \notin DOMAIN seen'[i].byDevice
      ]_vars

\* A handler subscribed to NoteOff ran for a raw note-off and found the
\* trackers as the callback left them, without the note
C31_Witness ==
    /\ lastCall.op = "message"
    /\ lastCall.status = NOTE_OFF_BASE
    /\ Len(emitted) = 1
    /\ emitted[1].event = "noteoff"
    /\ Len(delivered) = 1
    /\ delivered[1].event = "noteoff"
    /\ seen = << Tracker >>
    /\ ~InGlobal(activeNotes, 0, lastCall.data1)
    /\ <<0, lastCall.data1>> \notin lastOnGlobal

(***************************************************************************)
(* C32: within one emission of kind K on a concrete channel C, every       *)
(* handler registered on (C, K) is invoked before any handler registered   *)
(* on (wildcard, K): the invocations are those of (C, K) followed by those *)
(* of (wildcard, K).                                                       *)
(***************************************************************************)
C32_ConcreteBeforeWildcard ==
    [][ (lastCall'.op = "message" /\ Len(emitted') = 1)
        => LET e == emitted'[1]
               own == HandlersIn(eventHandlersByChannel, e.channel, e.event)
               wild == HandlersIn(eventHandlersByChannel, WILDCARD, e.event)
           IN  /\ e.channel # WILDCARD
               /\ Len(delivered') = Len(own) + Len(wild)
               /\ \A i \in 1..Len(delivered') :
                     /\ delivered'[i].event = e.event
                     /\ delivered'[i].channel = e.channel
                     /\ IF i <= Len(own)
                        THEN delivered'[i].handler \in Range(own)
                        ELSE delivered'[i].handler \in Range(wild)
      ]_vars

\* A NoteOn on channel 0 invoked h1, registered on channel 0, and then h2,
\* registered on the wildcard
C32_Witness ==
    /\ lastCall.op = "message"
    /\ lastCall.status = NOTE_ON_BASE
    /\ HandlersIn(eventHandlersByChannel, 0, "noteon") = << "h1" >>
    /\ HandlersIn(eventHandlersByChannel, WILDCARD, "noteon") = << "h2" >>
    /\ Len(delivered) = 2
    /\ delivered[1].handler = "h1"
    /\ delivered[2].handler = "h2"

(***************************************************************************)
(* C33: stuck-note freedom.  When a disconnect notification arrives for    *)
(* device D, every (channel, note) for which a NoteOn of D was emitted and *)
(* no note-off of D was accepted since (and no disconnect of D or reset    *)
(* happened since) gets a NoteOff in that callback, emitted before D's     *)
(* InputDisconnected, whatever the global gate and the gate of D are.      *)
(***************************************************************************)
C33_NoStuckNote ==
    [][ Disconnected(lastCall')
        => \A k \in lastOnByDevice :
              k[1] = InputId(lastCall'.port)
              => \E i \in 1..Len(emitted') :
                    /\ emitted'[i] = [ event |-> "noteoff",
                                       payload |-> [ note |-> k[3] ],
                                       channel |-> k[2] ]
                    /\ \E j \in (i + 1)..Len(emitted') :
                          emitted'[j] = InputDisconnected(lastCall'.port)
      ]_vars

\* in1 was disconnected with both its gate and the global gate closed, and
\* the note it held was released before the disconnect was announced
C33_Witness ==
    /\ IsDisconnect(lastCall, "in1")
    /\ ~enabled
    /\ DeviceDisabled("in1")
    /\ emitted = << [ event |-> "noteoff", payload |-> [ note |-> 60 ],
                      channel |-> 0 ],
                    InputDisconnected("in1") >>
    /\ "in1" \notin DOMAIN activeNotesByDevice

(***************************************************************************)
(* Specification SpecDouble: handlers registered for note kinds on the     *)
(* wildcard and on channel 0, also the same handler on both, removed by    *)
(* off and by unsubscribeToChannel, and one input port sending note        *)
(* messages on channels 0 and 1.                                           *)
(***************************************************************************)
NextDouble ==
    \/ Request
    \/ GrantOne
    \/ MessageRegistry
    \/ Register
    \/ Unregister
    \/ UnsubscribeChannel

SpecDouble == Init /\ [][NextDouble]_vars

\* How often the step invoked the handler
InvokedTimes(h) ==
    Cardinality({ i \in 1..Len(delivered') : delivered'[i].handler = h })

(***************************************************************************)
(* C34: a handler registered for kind K on the wildcard is invoked twice   *)
(* by an emission of K on a concrete channel C on which it is registered   *)
(* for K as well, and once by an emission of K on any other channel;       *)
(* off(K, h, C) and unsubscribeToChannel(C) remove the registration on C   *)
(* and keep the one on the wildcard, which brings it back to once.         *)
(***************************************************************************)
C34_DoubleRegistrationDeliversTwice ==
    [][ /\ (lastCall'.op = "message" /\ Len(emitted') = 1)
           => \A h \in Handlers :
                 h \in Range(HandlersIn(eventHandlersByChannel, WILDCARD,
                                        emitted'[1].event))
                 => InvokedTimes(h) =
                       IF h \in Range(HandlersIn(eventHandlersByChannel,
                                                 emitted'[1].channel,
                                                 emitted'[1].event))
                       THEN 2 ELSE 1
        /\ (lastCall'.op = "off" /\ lastCall'.channel # WILDCARD)
           => /\ lastCall'.handler \notin
                    Range(HandlersIn(eventHandlersByChannel', lastCall'.channel,
                                     lastCall'.event))
              /\ \A k \in RegistryEvents :
                    HandlersIn(eventHandlersByChannel', WILDCARD, k) =
                       HandlersIn(eventHandlersByChannel, WILDCARD, k)
        /\ (lastCall'.op = "unsubscribeToChannel" /\ lastCall'.channel # WILDCARD)
           => \A k \in RegistryEvents :
                 /\ HandlersIn(eventHandlersByChannel', lastCall'.channel, k) = <<>>
                 /\ HandlersIn(eventHandlersByChannel', WILDCARD, k) =
                       HandlersIn(eventHandlersByChannel, WILDCARD, k)
      ]_vars

\* h1 is registered for NoteOn on channel 0 and on the wildcard, and a
\* NoteOn on channel 0 invoked it twice
C34_Witness ==
    /\ lastCall.op = "message"
    /\ lastCall.status = NOTE_ON_BASE
    /\ HandlersIn(eventHandlersByChannel, 0, "noteon") = << "h1" >>
    /\ HandlersIn(eventHandlersByChannel, WILDCARD, "noteon") = << "h1" >>
    /\ Len(delivered) = 2
    /\ delivered[1].handler = "h1"
    /\ delivered[2].handler = "h1"

(***************************************************************************)
(* C35: once the access status is accepted or denied it changes only       *)
(* through reset(), under any interleaving of requestAccess calls and host *)
(* answers.                                                                *)
(***************************************************************************)
C35_SettledStatusIsFinal ==
    [][ (accessStatus # "unrequested" /\ lastCall'.op # "reset")
        => accessStatus' = accessStatus ]_vars

(***************************************************************************)
(* C36: when the host grants a requestAccess call the global gate is       *)
(* enabled, whatever setEnabled had made it; a requestAccess call that is  *)
(* refused, and the call itself (also when it is a no-op because the       *)
(* status is settled), leave the global gate as it is.                     *)
(***************************************************************************)
C36_GrantEnablesGate ==
    [][ /\ lastCall'.op = "granted" => enabled'
        /\ lastCall'.op = "denied" => enabled' = enabled
        /\ lastCall'.op = "requestAccess" => enabled' = enabled ]_vars

\* The host granted access and the gate is open
C36_Witness ==
    /\ lastCall.op = "granted"
    /\ accessStatus = "accepted"
    /\ enabled
    /\ hostRequests = 1
    /\ pending = 0

(***************************************************************************)
(* C37: the enabled flag of a device survives disconnect and reconnect:    *)
(* absent reset, no step other than enable() or disable() on the device    *)
(* changes the flag of a known device, connect and disconnect              *)
(* notifications in particular; and while the flag is off every raw        *)
(* message of the device is ignored.                                       *)
(***************************************************************************)
C37_FlagSurvivesReconnect ==
    [][ /\ lastCall'.op # "reset"
           => \A i \in 1..Len(inputs) :
                 /\ i <= Len(inputs')
                 /\ inputs'[i].id = inputs[i].id
                 /\ inputs'[i].enabled # inputs[i].enabled
                    => /\ lastCall'.op = "setInputEnabled"
                       /\ lastCall'.id = inputs[i].id
                       /\ lastCall'.enabled = inputs'[i].enabled
        /\ (lastCall'.op = "message" /\ DeviceDisabled(lastCall'.port))
           => Ignored
      ]_vars

\* The record of in2, created by a disconnect notification and disabled
\* afterwards, is still disabled after a connect notification for in2
C37_Witness ==
    /\ lastCall.op = "statechange"
    /\ lastCall.port = "in2"
    /\ lastCall.type = "input"
    /\ lastCall.state = "connected"
    /\ [ id |-> "in2", state |-> "disconnected", enabled |-> FALSE ] \in Range(inputs)
    /\ "in2" \in boundPorts
    /\ accessStatus = "accepted"

(***************************************************************************)
(* C38: the gates apply to raw messages only.  While the global gate is    *)
(* closed or the device is disabled, a connect notification for the device *)
(* still emits InputConnected, and a disconnect notification still emits a *)
(* NoteOff for every note the device holds and then InputDisconnected.     *)
(***************************************************************************)
C38_GatesDoNotApplyToConnectivity ==
    [][ (/\ lastCall'.op = "statechange"
         /\ lastCall'.type = "input"
         /\ (~enabled \/ DeviceDisabled(lastCall'.port)))
        => LET id == InputId(lastCall'.port)
               held == IF id \in DOMAIN activeNotesByDevice
                       THEN activeNotesByDevice[id] ELSE <<>>
           IN  IF lastCall'.state = "connected"
               THEN emitted' = << [ event |-> "inputconnected",
                                    payload |-> [ input |-> id ],
                                    channel |-> WILDCARD ] >>
               ELSE /\ Len(emitted') = HeldOnChannels(held) + 1
                    /\ emitted'[Len(emitted')] = InputDisconnected(lastCall'.port)
                    /\ \A i \in 1..Len(held) :
                          \A j \in 1..Len(held[i].notes) :
                             NoteOffCount(emitted', held[i].channel,
                                          held[i].notes[j]) = 1
      ]_vars

\* in2 was disconnected while it was disabled and the global gate was
\* closed: the NoteOff of its note and InputDisconnected were emitted
C38_Witness ==
    /\ IsDisconnect(lastCall, "in2")
    /\ ~enabled
    /\ DeviceDisabled("in2")
    /\ Len(emitted) = 2
    /\ emitted[1].event = "noteoff"
    /\ emitted[2] = InputDisconnected("in2")

(***************************************************************************)
(* C39: setEnabled, enable and disable leave both trackers as they are.    *)
(* A note-off of a device that a closed gate drops leaves every note the   *)
(* device holds in its per-device set and emits nothing.  Absent reset, a  *)
(* note leaves the per-device set of a device only in a step that emits    *)
(* its NoteOff: an accepted note-off of that device for that channel and   *)
(* note, or the disconnect notification of that device.                    *)
(***************************************************************************)
C39_GatesLeaveTrackers ==
    [][ /\ lastCall'.op \in { "setEnabled", "setInputEnabled" }
           => /\ activeNotes' = activeNotes
              /\ activeNotesByDevice' = activeNotesByDevice
              /\ emitted' = <<>>
        /\ (/\ lastCall'.op = "message"
            /\ lastCall'.status \in 128..143
            /\ ~GatesOpen(lastCall'.port))
           => /\ activeNotesByDevice' = activeNotesByDevice
              /\ emitted' = <<>>
        /\ lastCall'.op # "reset"
           => \A port \in Ports, channel \in Channels, note \in Notes :
                 (/\ HeldBy(activeNotesByDevice, InputId(port), channel, note)
                  /\ ~HeldBy(activeNotesByDevice', InputId(port), channel, note))
                 => \/ /\ lastCall'.op = "message"
                       /\ lastCall'.port = port
                       /\ GatesOpen(port)
                       /\ lastCall'.status = NOTE_OFF_BASE + channel
                          \/ /\ lastCall'.status = NOTE_ON_BASE + channel
                             /\ lastCall'.data2 = 0
                       /\ lastCall'.data1 = note
                       /\ NoteOffCount(emitted', channel, note) = 1
                    \/ /\ IsDisconnect(lastCall', port)
                       /\ NoteOffCount(emitted', channel, note) = 1
      ]_vars

\* The note-off of in1 arrived while a gate was closed: nothing was emitted
\* and note 60 is still in the per-device set of in1
C39_Witness ==
    /\ lastCall.op = "message"
    /\ lastCall.port = "in1"
    /\ lastCall.status = NOTE_OFF_BASE
    /\ lastCall.data1 = 60
    /\ ~GatesOpen("in1")
    /\ emitted = <<>>
    /\ HeldBy(activeNotesByDevice, "in1", 0, 60)
    /\ InGlobal(activeNotes, 0, 60)

(***************************************************************************)
(* Specification SpecAfterReset: one input port enumerated at the grant,   *)
(* the note-on and the note-off of one note, the gate of the device, the   *)
(* global gate, a handler registered for note kinds, and reset.            *)
(***************************************************************************)
NextAfterReset ==
    \/ Request
    \/ GrantOne
    \/ MessageGated
    \/ SubscribeReset
    \/ Gate
    \/ DeviceGate
    \/ Reset

SpecAfterReset == Init /\ [][NextAfterReset]_vars

(***************************************************************************)
(* C40: reset leaves the message callbacks of the host bound.  A raw       *)
(* message that arrives while the access status is unrequested comes from  *)
(* a port bound before a reset; getInputs() is empty then, so no handle    *)
(* gates it, and the status stays unrequested.  Unless setEnabled(false)   *)
(* was called after the reset, the message is decoded, tracked and emitted *)
(* to the handlers of the registry, all of them registered after the       *)
(* reset.                                                                  *)
(***************************************************************************)
C40_MessageAfterResetIsProcessed ==
    [][ (lastCall'.op = "message" /\ accessStatus = "unrequested")
        => LET id == InputId(lastCall'.port)
               channel == lastCall'.status % 16
               note == lastCall'.data1
           IN  /\ lastCall'.port \in boundPorts
               /\ inputs = <<>>
               /\ inputs' = <<>>
               /\ accessStatus' = "unrequested"
               /\ enabled
                  => /\ IF lastCall'.status \in 144..159 /\ lastCall'.data2 > 0
                        THEN /\ emitted' =
                                  << [ event |-> "noteon",
                                       payload |-> [ note |-> note,
                                                     velocity |-> lastCall'.data2 ],
                                       channel |-> channel ] >>
                             /\ HeldBy(activeNotesByDevice', id, channel, note)
                             /\ InGlobal(activeNotes', channel, note)
                        ELSE /\ emitted' =
                                  << [ event |-> "noteoff",
                                       payload |-> [ note |-> note ],
                                       channel |-> channel ] >>
                             /\ ~HeldBy(activeNotesByDevice', id, channel, note)
                             /\ ~InGlobal(activeNotes', channel, note)
                     /\ InvokedAsRegistered
      ]_vars

\* After a reset the bound port sent a note-on: the handler registered
\* after the reset was invoked and the note is tracked, while the status
\* is unrequested and getInputs() is empty
C40_Witness ==
    /\ lastCall.op = "message"
    /\ lastCall.port = "in1"
    /\ lastCall.status = 144
    /\ lastCall.data2 = 100
    /\ accessStatus = "unrequested"
    /\ inputs = <<>>
    /\ Len(delivered) = 1
    /\ delivered[1].handler = "h1"
    /\ delivered[1].event = "noteon"
    /\ HeldBy(activeNotesByDevice, "in1", 0, 60)
    /\ InGlobal(activeNotes, 0, 60)

=============================================================================
